---- MODULE Spec2Model ----
(***************************************************************************)
(* Verification model of the powertool MCP proxy (AgiFlow/platform-tools): *)
(*   - the OAuth callback server (createOAuthCallbackServer),              *)
(*   - the backend connection manager (McpClientManagerService),           *)
(*   - the proxy core's reload operation (createServerWithReload.reload),  *)
(*   - the configuration fetcher's endpoint selection.                     *)
(* Strings whose characters matter (the OAuth state parameter, URLs) are   *)
(* sequences of one-character / one-segment strings.                       *)
(***************************************************************************)
EXTENDS Integers, Sequences, FiniteSets, TLC

(***************************************************************************)
(* Bounds                                                                  *)
(***************************************************************************)
MaxStateLen == 4
MaxRes == 2
MaxWaits == 1
MaxTime == 2

(***************************************************************************)
(* Generic helpers                                                         *)
(***************************************************************************)
Range(s) == {s[i] : i \in DOMAIN s}

StrSet(alphabet, n) == UNION {[1..k -> alphabet] : k \in 0..n}

RECURSIVE SplitAcc(_, _, _, _)
SplitAcc(s, sep, cur, acc) ==
  IF s = <<>> THEN Append(acc, cur)
  ELSE IF Head(s) = sep THEN SplitAcc(Tail(s), sep, <<>>, Append(acc, cur))
  ELSE SplitAcc(Tail(s), sep, Append(cur, Head(s)), acc)

\* String.prototype.split(sep): every separator cuts, empty segments are kept
split(s, sep) == SplitAcc(s, sep, <<>>, <<>>)

\* array destructuring [x1, x2, ...] = arr : a missing element is undefined,
\* which like the empty string is falsy; both are the empty sequence here
Elem(arr, i) == IF i \in DOMAIN arr THEN arr[i] ELSE <<>>

RECURSIVE Without(_, _)
Without(s, x) ==
  IF s = <<>> THEN <<>>
  ELSE IF Head(s) = x THEN Tail(s)
  ELSE <<Head(s)>> \o Without(Tail(s), x)

(***************************************************************************)
(* OAuth callback server: value spaces                                     *)
(***************************************************************************)
Chars == {"a", ":"}
\* randomBytes(32).toString('base64url') never contains ':'
SessionIds == {<<"a">>, <<"a", "a">>}
StateValues == {<<"a">>, <<"a", "a">>}
\* query parameters as the route sees them; "" / <<>> is a missing or empty one
StateParams == StrSet(Chars, MaxStateLen)
Codes == {"", "c1"}
Errors == {"", "e1"}
\* option authTimeoutMs, in clock ticks of the model
authTimeoutMs == 1

ResIds == 1..MaxRes
WaitIds == 1..MaxWaits
\* a ServerResponse: 0 while it is open, -1 once its client is gone,
\* otherwise the HTTP status it was ended with
Open == 0
Gone == -1

VARIABLES
  sessions,      \* Map<sessionId, SessionData>
  res,           \* the parked /wait-for-auth responses, by id
  waits,         \* in-process waitForAuthCode promises
  now,           \* Date.now()
  lastReq,       \* the HTTP request handled by the last request step
  lastStatus,    \* ... and the status it was answered with (Open if parked)
  reqSeq         \* flips with every handled HTTP request

oauthVars == <<sessions, res, waits, now, lastReq, lastStatus, reqSeq>>

VARIABLES
  clients,       \* McpClientManagerService.clients, in Map insertion order
  conn,          \* every McpClient object created so far, by id
  caps,          \* what each backend server currently lists
  changes,       \* how often a backend changed what it lists
  calls,         \* how many operations have been called
  envConfigUrl,  \* process.env.AGIFLOW_MCP_CONFIG_URL
  fetcher,       \* the server's ConfigFetcherService
  scope,         \* the task / project id of the latest reload that carried one
  cachedConfig,  \* ConfigFetcherService.cachedConfig
  proc           \* the calls in progress, one per caller

mgrVars == <<clients, conn, caps, changes, calls, envConfigUrl, fetcher, scope, cachedConfig, proc>>

VARIABLES
  options,       \* ProxyServerOptions: useServerPrefix, progressive
  listed,        \* the answer to the last list request of the proxy server
  routed,        \* where the last call / read / get request was sent
  used,          \* the last use_tool call: its input, the call a backend received, the reply
  called,        \* the last call-tool request: its input, the call a backend received, the reply
  described      \* the last describe_tools call and its result

handlerVars == <<options, listed, routed, described, used, called>>

VARIABLES
  fileSrc,       \* the content of the local configuration file, Null when it cannot be read
  urlSrc,        \* the payload the configuration URL answers with, Null when the request fails
  resolver,      \* ConfigFetcherService: sources, mergeStrategy, cacheTtlMs, cachedConfig, lastFetchTime
  dateNow,       \* Date.now()
  fetches,       \* the fetchConfiguration calls: position and locals of each caller
  fetchSeq,      \* number of fetchConfiguration calls made
  newest         \* the latest timestamp of a stored fetch since the cache was cleared, -1 if none

resolverVars == <<fileSrc, urlSrc, resolver, dateNow, fetches, fetchSeq, newest>>

VARIABLES
  boot           \* createServerWithReload: its position and the locals of its start-up

bootVars == <<boot>>

VARIABLES
  creation,      \* a createOAuthCallbackServer call: its listen attempts and its promise
  lockfile,      \* the lockfile of the server URL: Null when there is none
  lockCheck,     \* the last checkLockfile call: what it found and what it returned
  http,          \* a connectToServer call for an http / sse backend: position and locals
  provider       \* a McpOAuthClientProvider: its session and its last redirectToAuthorization

flowVars == <<creation, lockfile, lockCheck, http, provider>>

VARIABLES
  credentials,   \* the credentials file's entry of the project, and the saves in progress
  oauthServers   \* McpClientManagerService.oauthServers, and every callback server made

authVars == <<credentials, oauthServers>>

\* everything but the callback server's state, and but the manager's
outsideOAuth == <<mgrVars, handlerVars, resolverVars, bootVars, flowVars, authVars>>
outsideManager == <<oauthVars, handlerVars, resolverVars, bootVars, flowVars, authVars>>
outsideHandlers == <<oauthVars, mgrVars, resolverVars, bootVars, flowVars, authVars>>
outsideResolver == <<oauthVars, mgrVars, handlerVars, bootVars, flowVars, authVars>>
outsideStartup == <<oauthVars, handlerVars, resolverVars, flowVars, authVars>>
\* for the manager's operations that close callback servers
outsideDisconnect == <<oauthVars, handlerVars, resolverVars, bootVars, flowVars, credentials>>

IsPrefix(p, s) == Len(p) <= Len(s) /\ SubSeq(s, 1, Len(p)) = p

\* what is recorded of a handled request: its route, the held session it
\* names (for a callback: the one whose id followed by ':' starts the state
\* parameter; <<>> if none), and whether the state parameter is exactly that
\* session's sessionId:state; for /wait-for-auth its sessionId and poll parameters
NoReq == [path |-> "none", session |-> <<>>, exact |-> FALSE, sessionId |-> <<>>, poll |-> FALSE]

addressed(ss, state) ==
  IF \E sid \in DOMAIN ss : IsPrefix(sid \o <<":">>, state)
  THEN CHOOSE sid \in DOMAIN ss : IsPrefix(sid \o <<":">>, state)
  ELSE <<>>

\* sessionId:state as redirectToAuthorization puts it on the authorization URL
stateParam(sessionId, state) == sessionId \o <<":">> \o state

\* generateSession: sessions.set(sessionId, {state, waitingClients: [], createdAt})
generateSession(ss, sessionId, state, createdAt) ==
  [x \in (DOMAIN ss) \cup {sessionId} |->
     IF x = sessionId
     THEN [state |-> state, authCode |-> "", authError |-> "",
           waitingClients |-> <<>>, createdAt |-> createdAt]
     ELSE ss[x]]

\* notifySessionClients(sessionId, status, body): drain the session's waiting
\* clients, ending every response that is not ended yet
notifySessionClients_allSessions(ss, rs, sessionId, status) ==
  [sessions |-> [x \in DOMAIN ss |-> [ss[x] EXCEPT !.waitingClients = <<>>]],
   res |-> [r \in DOMAIN rs |->
              IF (\E x \in DOMAIN ss : r \in Range(ss[x].waitingClients)) /\ rs[r] = Open
              THEN status ELSE rs[r]]]

notifySessionClients(ss, rs, sessionId, status) ==
  IF sessionId \notin DOMAIN ss THEN [sessions |-> ss, res |-> rs]
  ELSE [sessions |-> [ss EXCEPT ![sessionId].waitingClients = <<>>],
        res |-> [r \in DOMAIN rs |->
                   IF r \in Range(ss[sessionId].waitingClients) /\ rs[r] = Open
                   THEN status ELSE rs[r]]]

\* GET /oauth/callback?code|error&state=...
callbackRoute(ss, rs, state, code, error) ==
  LET parts == split(state, ":")
      sessionId == Elem(parts, 1)
      stateValue == Elem(parts, 2)
  IN
  IF state = <<>> THEN [status |-> 400, sessions |-> ss, res |-> rs]
  ELSE IF sessionId = <<>> \/ stateValue = <<>>
    THEN [status |-> 400, sessions |-> ss, res |-> rs]
  ELSE IF sessionId \notin DOMAIN ss
    THEN [status |-> 400, sessions |-> ss, res |-> rs]
  ELSE IF ss[sessionId].state # stateValue
    THEN [status |-> 403, sessions |-> ss, res |-> rs]
  ELSE IF code # ""
    THEN LET s1 == [ss EXCEPT ![sessionId].authCode = code]
             n == notifySessionClients(s1, rs, sessionId, 200)
         IN [status |-> 200, sessions |-> n.sessions, res |-> n.res]
  ELSE IF error # ""
    THEN LET s1 == [ss EXCEPT ![sessionId].authError = error]
             n == notifySessionClients(s1, rs, sessionId, 400)
         IN [status |-> 400, sessions |-> n.sessions, res |-> n.res]
  ELSE [status |-> 400, sessions |-> ss, res |-> rs]

\* the mutant: a recorded code or error is not looked at
waitForAuthRoute_unchecked(ss, rs, sessionId, poll, r) ==
  IF sessionId = <<>> THEN [status |-> 400, sessions |-> ss, res |-> rs]
  ELSE IF sessionId \notin DOMAIN ss THEN [status |-> 404, sessions |-> ss, res |-> rs]
  ELSE IF poll
    THEN [status |-> Open,
          sessions |-> [ss EXCEPT ![sessionId].waitingClients = Append(@, r)],
          res |-> [x \in (DOMAIN rs) \cup {r} |-> IF x = r THEN Open ELSE rs[x]]]
  ELSE [status |-> 202, sessions |-> ss, res |-> rs]

\* GET /wait-for-auth?sessionId=...&poll=... ; r is the response object
waitForAuthRoute(ss, rs, sessionId, poll, r) ==
  IF sessionId = <<>> THEN [status |-> 400, sessions |-> ss, res |-> rs]
  ELSE IF sessionId \notin DOMAIN ss THEN [status |-> 404, sessions |-> ss, res |-> rs]
  ELSE IF ss[sessionId].authCode # "" THEN [status |-> 200, sessions |-> ss, res |-> rs]
  ELSE IF ss[sessionId].authError # "" THEN [status |-> 400, sessions |-> ss, res |-> rs]
  ELSE IF poll
    THEN [status |-> Open,
          sessions |-> [ss EXCEPT ![sessionId].waitingClients = Append(@, r)],
          res |-> [x \in (DOMAIN rs) \cup {r} |-> IF x = r THEN Open ELSE rs[x]]]
  ELSE [status |-> 202, sessions |-> ss, res |-> rs]

\* the mutant: a session as old as authTimeoutMs is expired too
RECURSIVE cleanup_inclusive(_, _, _, _)
cleanup_inclusive(ss, rs, t, todo) ==
  IF todo = {} THEN [sessions |-> ss, res |-> rs]
  ELSE LET sid == CHOOSE x \in todo : TRUE IN
       IF t - ss[sid].createdAt >= authTimeoutMs
       THEN LET n == notifySessionClients(ss, rs, sid, 408)
            IN cleanup_inclusive([x \in (DOMAIN ss) \ {sid} |-> n.sessions[x]], n.res, t, todo \ {sid})
       ELSE cleanup_inclusive(ss, rs, t, todo \ {sid})

\* the cleanup interval's body: expire every session older than authTimeoutMs
RECURSIVE cleanup(_, _, _, _)
cleanup(ss, rs, t, todo) ==
  IF todo = {} THEN [sessions |-> ss, res |-> rs]
  ELSE LET sid == CHOOSE x \in todo : TRUE IN
       IF t - ss[sid].createdAt > authTimeoutMs
       THEN LET n == notifySessionClients(ss, rs, sid, 408)
            IN cleanup([x \in (DOMAIN ss) \ {sid} |-> n.sessions[x]], n.res, t, todo \ {sid})
       ELSE cleanup(ss, rs, t, todo \ {sid})

\* the mutant: a recorded error settles the wait like a code
checkAuth_errorResolves(ss, sessionId) ==
  IF sessionId \notin DOMAIN ss THEN [status |-> "rejected", value |-> "Session expired"]
  ELSE IF ss[sessionId].authCode # ""
    THEN [status |-> "resolved", value |-> ss[sessionId].authCode]
  ELSE IF ss[sessionId].authError # ""
    THEN [status |-> "resolved", value |-> ss[sessionId].authError]
  ELSE [status |-> "pending", value |-> ""]

\* one evaluation of waitForAuthCode's checkAuth against the session table
checkAuth(ss, sessionId) ==
  IF sessionId \notin DOMAIN ss THEN [status |-> "rejected", value |-> "Session expired"]
  ELSE IF ss[sessionId].authCode # ""
    THEN [status |-> "resolved", value |-> ss[sessionId].authCode]
  ELSE IF ss[sessionId].authError # ""
    THEN [status |-> "rejected", value |-> ss[sessionId].authError]
  ELSE [status |-> "pending", value |-> ""]

(***************************************************************************)
(* OAuth callback server: actions                                          *)
(***************************************************************************)
InitCallbackServer ==
  /\ sessions = <<>>
  /\ res = <<>>
  /\ waits = <<>>
  /\ now = 0
  /\ lastReq = NoReq
  /\ lastStatus = Open
  /\ reqSeq = 0

GenerateSession(sessionId, state) ==
  /\ sessionId \notin DOMAIN sessions
  /\ sessions' = generateSession(sessions, sessionId, state, now)
  /\ UNCHANGED <<res, waits, now, lastReq, lastStatus, reqSeq>>
  /\ UNCHANGED outsideOAuth

OAuthCallback(state, code, error) ==
  LET out == callbackRoute(sessions, res, state, code, error) IN
  /\ sessions' = out.sessions
  /\ res' = out.res
  /\ lastReq' = [NoReq EXCEPT !.path = "callback", !.session = addressed(sessions, state),
                              !.exact = \E sid \in DOMAIN sessions :
                                           state = stateParam(sid, sessions[sid].state)]
  /\ lastStatus' = out.status
  /\ reqSeq' = 1 - reqSeq
  /\ UNCHANGED <<waits, now>>
  /\ UNCHANGED outsideOAuth

WaitForAuth(sessionId, poll) ==
  LET r == Len(res) + 1
      out == waitForAuthRoute(sessions, res, sessionId, poll, r) IN
  /\ r <= MaxRes
  /\ sessions' = out.sessions
  /\ res' = out.res
  /\ lastReq' = [NoReq EXCEPT !.path = "wait-for-auth",
                              !.session = IF sessionId \in DOMAIN sessions
                                          THEN sessionId ELSE <<>>,
                              !.sessionId = sessionId, !.poll = poll]
  /\ lastStatus' = out.status
  /\ reqSeq' = 1 - reqSeq
  /\ UNCHANGED <<waits, now>>
  /\ UNCHANGED outsideOAuth

\* the 30 second timer of a parked request
PollTimeout(r) ==
  /\ r \in DOMAIN res
  /\ res[r] # Gone
  /\ \E sid \in DOMAIN sessions : r \in Range(sessions[sid].waitingClients)
  /\ sessions' = [sid \in DOMAIN sessions |->
                    [sessions[sid] EXCEPT !.waitingClients = Without(@, r)]]
  /\ res' = [res EXCEPT ![r] = IF @ = Open THEN 202 ELSE @]
  /\ UNCHANGED <<waits, now, lastReq, lastStatus, reqSeq>>
  /\ UNCHANGED outsideOAuth

\* req.on('close') of a parked request
ClientDisconnect(r) ==
  /\ r \in DOMAIN res
  /\ res[r] = Open
  /\ sessions' = [sid \in DOMAIN sessions |->
                    [sessions[sid] EXCEPT !.waitingClients = Without(@, r)]]
  /\ res' = [res EXCEPT ![r] = Gone]
  /\ UNCHANGED <<waits, now, lastReq, lastStatus, reqSeq>>
  /\ UNCHANGED outsideOAuth

Sweep ==
  LET out == cleanup(sessions, res, now, DOMAIN sessions) IN
  /\ \E sid \in DOMAIN sessions : now - sessions[sid].createdAt > authTimeoutMs
  /\ sessions' = out.sessions
  /\ res' = out.res
  /\ UNCHANGED <<waits, now, lastReq, lastStatus, reqSeq>>
  /\ UNCHANGED outsideOAuth

\* the clock advances; a timer of waitForAuthCode that is due fires first
Tick ==
  /\ now < MaxTime
  /\ \A w \in DOMAIN waits : waits[w].status = "pending" => now < waits[w].deadline
  /\ now' = now + 1
  /\ UNCHANGED <<sessions, res, waits, lastReq, lastStatus, reqSeq>>
  /\ UNCHANGED outsideOAuth

\* waitForAuthCode(sessionId): settles at once or starts polling
WaitForAuthCodeCall(sessionId) ==
  LET w == Len(waits) + 1
      first == IF sessionId \notin DOMAIN sessions
               THEN [status |-> "rejected", value |-> "Invalid session ID"]
               ELSE checkAuth(sessions, sessionId) IN
  /\ w <= MaxWaits
  /\ waits' = Append(waits, [sessionId |-> sessionId, status |-> first.status,
                             value |-> first.value, deadline |-> now + authTimeoutMs])
  /\ UNCHANGED <<sessions, res, now, lastReq, lastStatus, reqSeq>>
  /\ UNCHANGED outsideOAuth

\* one 100ms poll of a pending waitForAuthCode
CheckAuth(w) ==
  /\ w \in DOMAIN waits
  /\ waits[w].status = "pending"
  /\ LET c == checkAuth(sessions, waits[w].sessionId) IN
       /\ c.status # "pending"
       /\ waits' = [waits EXCEPT ![w].status = c.status, ![w].value = c.value]
  /\ UNCHANGED <<sessions, res, now, lastReq, lastStatus, reqSeq>>
  /\ UNCHANGED outsideOAuth

\* the authTimeoutMs timer of a pending waitForAuthCode
WaitTimeout(w) ==
  /\ w \in DOMAIN waits
  /\ waits[w].status = "pending"
  /\ now >= waits[w].deadline
  /\ waits' = [waits EXCEPT ![w].status = "rejected",
                            ![w].value = "OAuth authentication timeout"]
  /\ UNCHANGED <<sessions, res, now, lastReq, lastStatus, reqSeq>>
  /\ UNCHANGED outsideOAuth

\* the HTTP side of the callback server, at one instant of the clock
NextOAuth ==
  \/ \E sid \in SessionIds, st \in StateValues : GenerateSession(sid, st)
  \/ \E s \in StateParams, c \in Codes, e \in Errors : OAuthCallback(s, c, e)
  \/ \E sid \in SessionIds \cup {<<>>}, poll \in BOOLEAN : WaitForAuth(sid, poll)
  \/ \E r \in ResIds : PollTimeout(r)
  \/ \E r \in ResIds : ClientDisconnect(r)

\* the callback server with its clock, its sweep and the in-process waits;
\* callbacks carry the state parameter of a held session or a wrong one
NextOAuthTimed ==
  \/ \E sid \in SessionIds, st \in StateValues : GenerateSession(sid, st)
  \/ \E sid \in SessionIds, st \in StateValues, c \in Codes, e \in Errors :
        OAuthCallback(stateParam(sid, st), c, e)
  \/ \E sid \in SessionIds \cup {<<>>}, poll \in BOOLEAN : WaitForAuth(sid, poll)
  \/ \E r \in ResIds : PollTimeout(r)
  \/ \E r \in ResIds : ClientDisconnect(r)
  \/ Sweep
  \/ Tick
  \/ \E sid \in SessionIds : WaitForAuthCodeCall(sid)
  \/ \E w \in WaitIds : CheckAuth(w)
  \/ \E w \in WaitIds : WaitTimeout(w)

\* the long-polling endpoint with the callbacks, the sweep and the clock; the
\* callbacks carry a code or an error, and the state of a session or a wrong one
Outcomes == {<<"c1", "">>, <<"", "e1">>}
NextWaitForAuth ==
  \/ \E sid \in SessionIds : GenerateSession(sid, <<"a">>)
  \/ \E sid \in SessionIds, st \in StateValues, o \in Outcomes :
        OAuthCallback(stateParam(sid, st), o[1], o[2])
  \/ \E sid \in SessionIds \cup {<<>>}, poll \in BOOLEAN : WaitForAuth(sid, poll)
  \/ \E r \in ResIds : PollTimeout(r)
  \/ \E r \in ResIds : ClientDisconnect(r)
  \/ Sweep
  \/ Tick

\* the in-process waits with the callbacks, the sweep and the clock
NextWaitForAuthCode ==
  \/ \E sid \in SessionIds : GenerateSession(sid, <<"a">>)
  \/ \E sid \in SessionIds, st \in StateValues, o \in Outcomes :
        OAuthCallback(stateParam(sid, st), o[1], o[2])
  \/ Sweep
  \/ Tick
  \/ \E sid \in SessionIds : now + authTimeoutMs <= MaxTime /\ WaitForAuthCodeCall(sid)
  \/ \E w \in WaitIds : CheckAuth(w)
  \/ \E w \in WaitIds : WaitTimeout(w)

(***************************************************************************)
(* Backend connection manager, configuration fetcher and reload: values    *)
(***************************************************************************)
MaxConns == 4
MaxChanges == 1
MaxCalls == 3
MaxNameLen == 2
MaxFetches == 3
MaxClock == 3
MaxServers == 3
MaxTools == 2

Names == {"a", "b"}
Fetchers == {1, 2}
CacheTtl == 2
Procs == {1, 2}
Kinds == <<"tools", "resources", "prompts">>

\* a tool / resource / prompt as a backend lists it: key is its name (its
\* uri for a resource), def stands for the rest of its definition
Item(k, d) == [key |-> k, def |-> d]
KeyOrder == <<"p1", "r1", "t1", "t2">>
IndexOf(seq, x) == CHOOSE i \in DOMAIN seq : seq[i] = x

\* String.prototype.localeCompare on the keys in use
localeCompare(x, y) ==
  IF IndexOf(KeyOrder, x) < IndexOf(KeyOrder, y) THEN -1
  ELSE IF IndexOf(KeyOrder, x) > IndexOf(KeyOrder, y) THEN 1 ELSE 0

\* Array.prototype.sort((a, b) => a.name?.localeCompare(b.name) || 0):
\* a stable sort by key, items with equal keys keep their arrival order
RECURSIVE insertSorted(_, _)
insertSorted(sorted, x) ==
  IF sorted = <<>> THEN <<x>>
  ELSE IF localeCompare(Head(sorted).key, x.key) <= 0
    THEN <<Head(sorted)>> \o insertSorted(Tail(sorted), x)
  ELSE <<x>> \o sorted

RECURSIVE sortByKey(_)
sortByKey(arr) ==
  IF arr = <<>> THEN <<>>
  ELSE insertSorted(sortByKey(SubSeq(arr, 1, Len(arr) - 1)), arr[Len(arr)])

\* JSON.stringify of an array of items: the items' key/value pairs in order
stringify(arr) == [i \in DOMAIN arr |-> <<"key", arr[i].key, "def", arr[i].def>>]

Perms(n) == {f \in [1..n -> 1..n] : \A i, j \in 1..n : f[i] = f[j] => i = j}

\* what a backend server may answer to listTools
ToolLists == {<<Item("t1", "x")>>, <<Item("t1", "y")>>,
              <<Item("t1", "x"), Item("t2", "x")>>}
CapsOf(tools, n) ==
  [tools |-> tools,
   resources |-> IF n = "a" THEN <<Item("r1", "x")>> ELSE <<>>,
   prompts |-> IF n = "b" THEN <<Item("p1", "x")>> ELSE <<>>]
OwnCaps ==
  [n \in Names |-> CapsOf(IF n = "a" THEN <<Item("t1", "x")>> ELSE <<Item("t1", "y")>>, n)]
FixedCaps == [n \in Names |-> CapsOf(<<Item("t1", "x")>>, n)]

\* a resolved configuration: its server names in Object.entries order
Configs == {<<>>, <<"a">>, <<"b">>, <<"a", "b">>, <<"b", "a">>}

\* URLs as sequences of path segments, the first one being scheme and host
Base == <<"https://h">>
OrgId == "o1"
orgUrl(baseUrl, org) == baseUrl \o <<"api", "v1", "organizations", org, "mcp-configs">>
taskUrl(baseUrl, org, t) ==
  baseUrl \o <<"api", "v1", "organizations", org, "tasks", t, "mcp-configs">>
projectUrl(baseUrl, org, pr) ==
  baseUrl \o <<"api", "v1", "organizations", org, "projects", pr, "mcp-configs">>
NoUrl == <<>>

\* the reload context; given = FALSE is reload() called without an argument
NoCtx == [given |-> FALSE, taskId |-> "", workUnitId |-> "", projectId |-> ""]
Ctx(t, w, pr) == [given |-> TRUE, taskId |-> t, workUnitId |-> w, projectId |-> pr]

(***************************************************************************)
(* ConfigFetcherService: construction and endpoint selection               *)
(***************************************************************************)
endsWith(url, seg) == url # <<>> /\ url[Len(url)] = seg

\* url.match(/\/organizations\/([^/]+)/): first "organizations" segment that
\* follows a '/' and is followed by a non-empty segment
orgMatch(url) ==
  {i \in 2..(Len(url) - 1) : url[i] = "organizations"}

\* url.indexOf('/api/v1/organizations')
apiIndex(url) ==
  {i \in 2..(Len(url) - 2) :
     url[i] = "api" /\ url[i + 1] = "v1" /\ url[i + 2] = "organizations"}

Min(S) == CHOOSE x \in S : \A y \in S : x <= y

\* extractOrganizationContext(url)
extractOrganizationContext(url) ==
  IF orgMatch(url) # {}
  THEN [organizationId |-> url[Min(orgMatch(url)) + 1],
        baseUrl |-> IF apiIndex(url) # {}
                    THEN SubSeq(url, 1, Min(apiIndex(url)) - 1) ELSE NoUrl]
  ELSE [organizationId |-> "",
        baseUrl |-> IF Len(url) >= 3 /\ SubSeq(url, Len(url) - 2, Len(url))
                                          = <<"api", "v1", "mcp-configs">>
                    THEN SubSeq(url, 1, Len(url) - 3) ELSE url]

\* new ConfigFetcherService(options): options.configUrl, else (without a
\* config file) AGIFLOW_MCP_CONFIG_URL || AGIFLOW_MCP_PROXY_ENDPOINT
newConfigFetcher(optUrl, optFile, envUrl, envProxyEndpoint) ==
  LET configUrl == IF optUrl = NoUrl /\ ~optFile
                   THEN (IF envUrl # NoUrl THEN envUrl ELSE envProxyEndpoint)
                   ELSE optUrl
      org == IF configUrl # NoUrl THEN extractOrganizationContext(configUrl)
             ELSE [organizationId |-> "", baseUrl |-> NoUrl]
  IN [configUrl |-> configUrl, configFilePath |-> optFile,
      organizationId |-> org.organizationId, baseUrl |-> org.baseUrl]

\* a loadFromUrl that would consult AGIFLOW_MCP_CONFIG_URL on every fetch
loadFromUrl_fromEnv(f, ctx) ==
  IF f.configUrl = NoUrl \/ f.baseUrl = NoUrl \/ f.organizationId = "" THEN NoUrl
  ELSE IF ctx.taskId # "" THEN taskUrl(f.baseUrl, f.organizationId, ctx.taskId)
  ELSE IF ctx.projectId # "" THEN projectUrl(f.baseUrl, f.organizationId, ctx.projectId)
  ELSE IF envConfigUrl # NoUrl THEN envConfigUrl
  ELSE IF endsWith(f.configUrl, "mcp-configs") THEN f.configUrl
  ELSE orgUrl(f.baseUrl, f.organizationId)

\* loadFromUrl(context): the URL it fetches, NoUrl when it throws before fetching
loadFromUrl_configured(f, ctx) ==
  IF f.configUrl = NoUrl \/ f.baseUrl = NoUrl \/ f.organizationId = "" THEN NoUrl
  ELSE IF ctx.taskId # "" THEN taskUrl(f.baseUrl, f.organizationId, ctx.taskId)
  ELSE IF ctx.projectId # "" THEN projectUrl(f.baseUrl, f.organizationId, ctx.projectId)
  ELSE IF endsWith(f.configUrl, "mcp-configs") THEN f.configUrl
  ELSE orgUrl(f.baseUrl, f.organizationId)

\* reload's AGIFLOW_MCP_CONFIG_URL update for a context with a task or project id
scopedConfigUrl(f, ctx, envUrl) ==
  IF ctx.given /\ (ctx.taskId # "" \/ ctx.projectId # "")
     /\ f.baseUrl # NoUrl /\ f.organizationId # ""
  THEN (IF ctx.taskId # "" THEN taskUrl(f.baseUrl, f.organizationId, ctx.taskId)
        ELSE projectUrl(f.baseUrl, f.organizationId, ctx.projectId))
  ELSE envUrl

(***************************************************************************)
(* McpClientManagerService: the clients map and the McpClient objects      *)
(***************************************************************************)
\* Map operations on clients, a sequence of [name, conn] in insertion order
mapHas(cs, name) == \E i \in DOMAIN cs : cs[i].name = name
mapGet(cs, name) ==
  IF mapHas(cs, name) THEN cs[CHOOSE i \in DOMAIN cs : cs[i].name = name].conn ELSE 0
mapSet(cs, name, c) ==
  IF mapHas(cs, name)
  THEN [i \in DOMAIN cs |-> IF cs[i].name = name THEN [name |-> name, conn |-> c] ELSE cs[i]]
  ELSE Append(cs, [name |-> name, conn |-> c])
mapDelete(cs, name) == SelectSeq(cs, LAMBDA e : e.name # name)
mapKeys(cs) == {cs[i].name : i \in DOMAIN cs}

\* the manager's oauthServers map (name -> callback server) and every
\* callback server made for a connect, with the backend it was made for and
\* whether it is listening
NoOAuthServers == [map |-> <<>>, made |-> <<>>]

\* createOAuthCallbackServer resolved: oauthServers.set(serverName, callbackServer)
registerOAuthServer(os, name) ==
  [map |-> mapSet(os.map, name, Len(os.made) + 1),
   made |-> Append(os.made, [name |-> name, listening |-> TRUE])]

\* disconnectServer's second half: the callback server registered under the
\* name is closed and taken out of the map
closeOAuthServer(os, name) ==
  IF ~mapHas(os.map, name) THEN os
  ELSE [map |-> mapDelete(os.map, name),
        made |-> [os.made EXCEPT ![mapGet(os.map, name)].listening = FALSE]]

\* disconnectAll's second half: every registered callback server is closed
\* and the map cleared
closeAllOAuthServers(os) ==
  [map |-> <<>>,
   made |-> [i \in DOMAIN os.made |->
               IF \E j \in DOMAIN os.map : os.map[j].conn = i
               THEN [os.made[i] EXCEPT !.listening = FALSE] ELSE os.made[i]]]

\* new McpClient(serverName, transport, client)
newMcpClient(cn, name) == Append(cn, [name |-> name, connected |-> FALSE])

\* McpClient.close() completing: connected = false
closeClient(cn, c) == [cn EXCEPT ![c].connected = FALSE]

\* connectToServer after its transport connect settled (ok or not)
connectToServer_end(cs, cn, name, c, ok) ==
  IF ok
  THEN [clients |-> mapSet(cs, name, c),
        conn |-> [cn EXCEPT ![c].connected = TRUE], threw |-> FALSE]
  ELSE [clients |-> cs, conn |-> closeClient(cn, c), threw |-> TRUE]

\* disconnectServer after client.close() settled; c is the client it read
\* from the map before the await (0 if there was none)
disconnectServer_end(cs, cn, name, c, ok) ==
  IF c = 0 THEN [clients |-> cs, conn |-> cn, threw |-> FALSE]
  ELSE IF ok
    THEN [clients |-> mapDelete(cs, name), conn |-> closeClient(cn, c), threw |-> FALSE]
  ELSE [clients |-> cs, conn |-> cn, threw |-> TRUE]

\* the live connections of a backend name: established and not closed
live(cn, name) == {c \in DOMAIN cn : cn[c].name = name /\ cn[c].connected}


(***************************************************************************)
(* Manager, fetcher and reload: state                                      *)
(***************************************************************************)

KindSet == {Kinds[i] : i \in DOMAIN Kinds}
EmptySnap == [k \in KindSet |-> <<>>]
NoConfig == [valid |-> FALSE, cfg |-> <<>>]
NoResult == [success |-> FALSE, message |-> "none", connected |-> <<>>, failed |-> <<>>]

\* a caller's frame: its position and the locals of reload / connectToServer /
\* disconnectServer / disconnectAll
IdleProc ==
  [pc |-> "idle", op |-> "none", id |-> 0, name |-> "", ctx |-> NoCtx, cur |-> 0,
   pending |-> {}, closeFailed |-> FALSE,
   firstConn |-> 0, oldClients |-> <<>>, oldNames |-> {}, listing |-> <<>>,
   old |-> EmptySnap, new |-> EmptySnap, oldLists |-> <<>>, newLists |-> <<>>,
   url |-> NoUrl, fetched |-> FALSE, fetchFailed |-> FALSE, newConfig |-> <<>>, queue |-> <<>>,
   sub |-> <<>>, connected |-> <<>>, failed |-> <<>>,
   changed |-> [k \in KindSet |-> FALSE], sent |-> <<>>,
   outcome |-> "none", result |-> NoResult]

\* getAllClients() followed by the synchronous start of the listings: an
\* McpClient refuses at call time when it is not connected
startListing(cs, cn) ==
  [i \in DOMAIN cs |-> [name |-> cs[i].name, conn |-> cs[i].conn,
                        ok |-> cn[cs[i].conn].connected]]

\* at most one listing request of a snapshot fails on the wire, a listTools
FailSets(L) == {{}} \cup {{<<i, "tools">>} : i \in DOMAIN L}

\* client.listX().catch(() => []) for every client of the snapshot
listsOf(L, cp, fails) ==
  [i \in DOMAIN L |->
     [k \in KindSet |-> IF L[i].ok /\ <<i, k>> \notin fails THEN cp[L[i].name][k] ELSE <<>>]]

\* oldTools.push(...tools) in the order the clients' listings complete
RECURSIVE pushAll(_, _, _)
pushAll(lists, order, k) ==
  IF order = <<>> THEN <<>>
  ELSE lists[Head(order)][k] \o pushAll(lists, Tail(order), k)

\* the three arrays after .sort(), which sorts them in place
snapshot(lists, order) == [k \in KindSet |-> sortByKey(pushAll(lists, order, k))]

byName(L, lists) ==
  [n \in {L[i].name : i \in DOMAIN L} |-> lists[CHOOSE i \in DOMAIN L : L[i].name = n]]

\* serversRemoved, in the iteration order of oldServerNames
serversRemoved(oldClients, cfg) ==
  LET gone == SelectSeq(oldClients, LAMBDA e : e.name \notin Range(cfg))
  IN [i \in DOMAIN gone |-> gone[i].name]

allSettled(sub) == \A n \in DOMAIN sub : sub[n].st \in {"ok", "fail"}

\* the mutant: the batch is joined as soon as one of its tasks has settled
afterBatch_firstSettled(pr, cs, cn) ==
  IF pr.sub = <<>> \/ \E n \in DOMAIN pr.sub : pr.sub[n].st \in {"ok", "fail"}
  THEN [pr EXCEPT !.pc = "snapNew", !.listing = startListing(cs, cn)]
  ELSE [pr EXCEPT !.pc = "batch"]

\* await Promise.all(connectionPromises) and, once it resolves, getAllClients()
\* and the start of the post-reload listings
afterBatch(pr, cs, cn) ==
  IF allSettled(pr.sub)
  THEN [pr EXCEPT !.pc = "snapNew", !.listing = startListing(cs, cn)]
  ELSE [pr EXCEPT !.pc = "batch"]

\* the synchronous start of connectToServer(name) inside a reload task
taskConnect(pr, cs, cn, name) ==
  IF mapHas(cs, name)
  THEN [pr |-> [pr EXCEPT !.sub = (name :> [st |-> "fail", c |-> 0]) @@ @,
                          !.failed = Append(@, name)],
        conn |-> cn]
  ELSE [pr |-> [pr EXCEPT !.sub = (name :> [st |-> "connecting", c |-> Len(cn) + 1]) @@ @],
        conn |-> newMcpClient(cn, name)]

\* Object.entries(newConfig.mcpServers).map(async ...): every task runs up to
\* its first await: disconnectServer(name) for a name of oldServerNames that
\* still has a client, connectToServer(name) otherwise
RECURSIVE startTasks(_, _, _, _)
startTasks(names, pr, cs, cn) ==
  IF names = <<>> THEN [pr |-> pr, conn |-> cn]
  ELSE LET name == Head(names) IN
       IF name \in pr.oldNames /\ mapGet(cs, name) # 0
       THEN startTasks(Tail(names),
                       [pr EXCEPT !.sub = (name :> [st |-> "closing", c |-> mapGet(cs, name)]) @@ @],
                       cs, cn)
       ELSE LET t == taskConnect(pr, cs, cn, name)
            IN startTasks(Tail(names), t.pr, cs, t.conn)

batchStart(pr, cs, cn) ==
  LET t == startTasks(pr.newConfig, pr, cs, cn)
  IN [pr |-> afterBatch(t.pr, cs, t.conn), clients |-> cs, conn |-> t.conn]

\* for (const serverName of serversRemoved) await disconnectServer(serverName):
\* up to the next client.close() that has to be awaited
RECURSIVE removeLoop(_, _, _)
removeLoop(pr, cs, cn) ==
  IF pr.queue = <<>> THEN batchStart(pr, cs, cn)
  ELSE IF mapGet(cs, Head(pr.queue)) = 0
    THEN removeLoop([pr EXCEPT !.queue = Tail(@)], cs, cn)
  ELSE [pr |-> [pr EXCEPT !.pc = "removing", !.cur = mapGet(cs, Head(pr.queue))],
        clients |-> cs, conn |-> cn]

\* the sends of a successful pass in their order, up to the one that throws
RECURSIVE sendsBefore(_, _, _)
sendsBefore(kinds, changed, failAt) ==
  IF kinds = <<>> \/ Head(kinds) = failAt THEN <<>>
  ELSE (IF changed[Head(kinds)] THEN <<Head(kinds)>> ELSE <<>>)
       \o sendsBefore(Tail(kinds), changed, failAt)


(***************************************************************************)
(* Manager operations called on their own                                  *)
(***************************************************************************)
Sends == {"none", "tools", "resources", "prompts", "log"}

\* connectToServer(name, config), up to the await of the transport connect
ConnectCall(p, name) ==
  /\ proc[p].pc = "idle"
  /\ calls < MaxCalls
  /\ calls' = calls + 1
  /\ Len(conn) < MaxConns
  /\ IF mapHas(clients, name)
     THEN /\ proc' = [proc EXCEPT ![p] = [IdleProc EXCEPT !.id = calls + 1, !.op = "connect", !.name = name,
                                                           !.outcome = "rejected"]]
          /\ conn' = conn
     ELSE /\ proc' = [proc EXCEPT ![p] = [IdleProc EXCEPT !.id = calls + 1, !.pc = "connecting", !.op = "connect",
                                                           !.name = name, !.cur = Len(conn) + 1,
                                                           !.outcome = "running"]]
          /\ conn' = newMcpClient(conn, name)
  /\ UNCHANGED <<clients, caps, changes, envConfigUrl, fetcher, scope, cachedConfig>>
  /\ UNCHANGED outsideManager

\* the transport connect settles: setConnected(true) and clients.set, or
\* close the new client and rethrow
ConnectReturn(p, ok) ==
  /\ proc[p].pc = "connecting"
  /\ LET e == connectToServer_end(clients, conn, proc[p].name, proc[p].cur, ok) IN
       /\ clients' = e.clients
       /\ conn' = e.conn
       /\ proc' = [proc EXCEPT ![p].pc = "idle", ![p].cur = 0,
                               ![p].outcome = IF e.threw THEN "rejected" ELSE "resolved"]
  /\ UNCHANGED <<caps, changes, calls, envConfigUrl, fetcher, scope, cachedConfig>>
  /\ UNCHANGED outsideManager

\* disconnectServer(name), up to the await of client.close()
DisconnectCall(p, name) ==
  /\ proc[p].pc = "idle"
  /\ calls < MaxCalls
  /\ calls' = calls + 1
  /\ proc' = [proc EXCEPT ![p] =
       IF mapGet(clients, name) = 0
       THEN [IdleProc EXCEPT !.id = calls + 1, !.op = "disconnect", !.name = name, !.outcome = "resolved"]
       ELSE [IdleProc EXCEPT !.id = calls + 1, !.pc = "closing", !.op = "disconnect", !.name = name,
                             !.cur = mapGet(clients, name), !.outcome = "running"]]
  /\ UNCHANGED <<clients, conn, caps, changes, envConfigUrl, fetcher, scope, cachedConfig>>
  /\ oauthServers' = IF mapGet(clients, name) = 0 THEN closeOAuthServer(oauthServers, name)
                     ELSE oauthServers
  /\ UNCHANGED outsideDisconnect

\* client.close() settles: clients.delete(name) and the closing of the
\* name's callback server, or the rejection propagates
DisconnectReturn(p, ok) ==
  /\ proc[p].pc = "closing"
  /\ LET d == disconnectServer_end(clients, conn, proc[p].name, proc[p].cur, ok) IN
       /\ clients' = d.clients
       /\ conn' = d.conn
       /\ proc' = [proc EXCEPT ![p].pc = "idle", ![p].cur = 0,
                               ![p].outcome = IF d.threw THEN "rejected" ELSE "resolved"]
  /\ UNCHANGED <<caps, changes, calls, envConfigUrl, fetcher, scope, cachedConfig>>
  /\ oauthServers' = IF ok THEN closeOAuthServer(oauthServers, proc[p].name) ELSE oauthServers
  /\ UNCHANGED outsideDisconnect

\* disconnectAll(): close() is started on every client of the map
DisconnectAllCall(p) ==
  /\ proc[p].pc = "idle"
  /\ calls < MaxCalls
  /\ calls' = calls + 1
  /\ clients # <<>>
  /\ proc' = [proc EXCEPT ![p] = [IdleProc EXCEPT !.id = calls + 1, !.pc = "closingAll", !.op = "disconnectAll",
                                                   !.pending = {clients[i].conn : i \in DOMAIN clients},
                                                   !.outcome = "running"]]
  /\ UNCHANGED <<clients, conn, caps, changes, envConfigUrl, fetcher, scope, cachedConfig>>
  /\ UNCHANGED outsideManager

\* one of the close() calls settles; after the last one Promise.all settles
\* and, if none rejected, clients.clear() runs and the callback servers are closed
DisconnectAllClosed(p, c, ok) ==
  /\ proc[p].pc = "closingAll"
  /\ c \in proc[p].pending
  /\ conn' = IF ok THEN closeClient(conn, c) ELSE conn
  /\ LET rest == proc[p].pending \ {c}
         bad == proc[p].closeFailed \/ ~ok
     IN /\ proc' = [proc EXCEPT ![p].pending = rest, ![p].closeFailed = bad,
                                ![p].pc = IF rest = {} THEN "idle" ELSE "closingAll",
                                ![p].outcome = IF rest # {} THEN "running"
                                               ELSE IF bad THEN "rejected" ELSE "resolved"]
        /\ clients' = IF rest = {} /\ ~bad THEN <<>> ELSE clients
        /\ oauthServers' = IF rest = {} /\ ~bad THEN closeAllOAuthServers(oauthServers)
                           ELSE oauthServers
  /\ UNCHANGED <<caps, changes, calls, envConfigUrl, fetcher, scope, cachedConfig>>
  /\ UNCHANGED outsideDisconnect

\* a backend server changes the tools it lists
BackendChange(b, tools) ==
  /\ changes < MaxChanges
  /\ caps[b].tools # tools
  /\ caps' = [caps EXCEPT ![b].tools = tools]
  /\ changes' = changes + 1
  /\ UNCHANGED <<clients, conn, calls, envConfigUrl, fetcher, scope, cachedConfig, proc>>
  /\ UNCHANGED outsideManager


(***************************************************************************)
(* reload(context), one action per stretch between two awaits              *)
(***************************************************************************)
hasScope(ctx) == ctx.given /\ (ctx.taskId # "" \/ ctx.projectId # "")
NoScope == [kind |-> "none", id |-> ""]
scopeOf(ctx) ==
  IF ctx.taskId # "" THEN [kind |-> "task", id |-> ctx.taskId]
  ELSE [kind |-> "project", id |-> ctx.projectId]

\* fetchConfiguration(context): the remote URL it requests; NoUrl when there
\* is no remote source or loadFromUrl throws before requesting
fetchUrl(f, ctx) == IF f.configUrl = NoUrl THEN NoUrl ELSE loadFromUrl_configured(f, ctx)

\* reload is called: connected = [], failed = [], sendLoggingMessage is awaited
ReloadCall(p, ctx) ==
  /\ proc[p].pc = "idle"
  /\ calls < MaxCalls
  /\ calls' = calls + 1
  /\ proc' = [proc EXCEPT ![p] = [IdleProc EXCEPT !.id = calls + 1, !.pc = "logStart", !.op = "reload",
                                                   !.ctx = ctx, !.firstConn = Len(conn) + 1,
                                                   !.outcome = "running"]]
  /\ UNCHANGED <<clients, conn, caps, changes, envConfigUrl, fetcher, scope, cachedConfig>>
  /\ UNCHANGED outsideManager

\* the start log settles; on success AGIFLOW_MCP_CONFIG_URL is updated, the
\* old clients are read and their listings are started
ReloadBegin(p, logOk) ==
  /\ proc[p].pc = "logStart"
  /\ IF logOk
     THEN /\ envConfigUrl' = scopedConfigUrl(fetcher, proc[p].ctx, envConfigUrl)
          /\ scope' = IF hasScope(proc[p].ctx) THEN scopeOf(proc[p].ctx) ELSE scope
          /\ proc' = [proc EXCEPT ![p].pc = "snapOld",
                                  ![p].oldClients = clients,
                                  ![p].oldNames = mapKeys(clients),
                                  ![p].listing = startListing(clients, conn)]
     ELSE /\ proc' = [proc EXCEPT ![p].pc = "catch"]
          /\ UNCHANGED <<envConfigUrl, scope>>
  /\ UNCHANGED <<clients, conn, caps, changes, calls, fetcher, cachedConfig>>
  /\ UNCHANGED outsideManager

\* the old listings settle in some order: sort, stringify, clearCache() and
\* the start of fetchConfiguration(context)
ReloadSnapshotOld(p, order, fails) ==
  /\ proc[p].pc = "snapOld"
  /\ order \in Perms(Len(proc[p].listing))
  /\ fails \in FailSets(proc[p].listing)
  /\ LET L == proc[p].listing
         lists == listsOf(L, caps, fails)
     IN proc' = [proc EXCEPT ![p].pc = "fetch",
                             ![p].old = snapshot(lists, order),
                             ![p].oldLists = byName(L, lists),
                             ![p].listing = <<>>,
                             ![p].url = fetchUrl(fetcher, proc[p].ctx)]
  /\ cachedConfig' = NoConfig
  /\ UNCHANGED <<clients, conn, caps, changes, calls, envConfigUrl, fetcher, scope>>
  /\ UNCHANGED outsideManager

\* fetchConfiguration settles with the configuration cfg or throws; on success
\* the removed servers are disconnected one after the other, then the
\* connection tasks are started
ReloadFetch(p, ok, cfg) ==
  /\ proc[p].pc = "fetch"
  /\ ok => ~(fetcher.configUrl # NoUrl /\ proc[p].url = NoUrl)
  /\ ok => Len(conn) + Len(cfg) <= MaxConns
  /\ IF ok
     THEN LET pr == [proc[p] EXCEPT !.fetched = TRUE, !.newConfig = cfg,
                                    !.queue = serversRemoved(proc[p].oldClients, cfg)]
              out == removeLoop(pr, clients, conn)
          IN /\ proc' = [proc EXCEPT ![p] = out.pr]
             /\ clients' = out.clients
             /\ conn' = out.conn
             /\ cachedConfig' = IF proc[p].ctx.given THEN cachedConfig
                                ELSE [valid |-> TRUE, cfg |-> cfg]
     ELSE /\ proc' = [proc EXCEPT ![p].pc = "catch", ![p].fetchFailed = TRUE]
          /\ UNCHANGED <<clients, conn, cachedConfig>>
  /\ UNCHANGED <<caps, changes, calls, envConfigUrl, fetcher, scope>>
  /\ UNCHANGED outsideManager

\* disconnectServer of a removed server settles; a rejection is only logged
ReloadRemoveEnd(p, ok) ==
  /\ proc[p].pc = "removing"
  /\ LET d == disconnectServer_end(clients, conn, Head(proc[p].queue), proc[p].cur, ok)
         out == removeLoop([proc[p] EXCEPT !.queue = Tail(@), !.cur = 0], d.clients, d.conn)
     IN /\ proc' = [proc EXCEPT ![p] = out.pr]
        /\ clients' = out.clients
        /\ conn' = out.conn
  /\ UNCHANGED <<caps, changes, calls, envConfigUrl, fetcher, scope, cachedConfig>>
  /\ UNCHANGED outsideManager

\* a task's disconnectServer(name) settles: on success connectToServer(name)
\* starts, a rejection puts name into failed
ReloadTaskDisconnected(p, name, ok) ==
  /\ proc[p].pc = "batch"
  /\ name \in DOMAIN proc[p].sub
  /\ proc[p].sub[name].st = "closing"
  /\ LET d == disconnectServer_end(clients, conn, name, proc[p].sub[name].c, ok)
         t == IF d.threw
              THEN [pr |-> [proc[p] EXCEPT !.sub[name] = [st |-> "fail", c |-> 0],
                                           !.failed = Append(@, name)],
                    conn |-> d.conn]
              ELSE taskConnect(proc[p], d.clients, d.conn, name)
     IN /\ proc' = [proc EXCEPT ![p] = afterBatch(t.pr, d.clients, t.conn)]
        /\ clients' = d.clients
        /\ conn' = t.conn
  /\ UNCHANGED <<caps, changes, calls, envConfigUrl, fetcher, scope, cachedConfig>>
  /\ UNCHANGED outsideManager

\* a task's connectToServer(name) settles: connected.push or failed.push
ReloadTaskConnected(p, name, ok) ==
  /\ proc[p].pc = "batch"
  /\ name \in DOMAIN proc[p].sub
  /\ proc[p].sub[name].st = "connecting"
  /\ LET e == connectToServer_end(clients, conn, name, proc[p].sub[name].c, ok)
         pr == IF e.threw
               THEN [proc[p] EXCEPT !.sub[name].st = "fail", !.failed = Append(@, name)]
               ELSE [proc[p] EXCEPT !.sub[name].st = "ok", !.connected = Append(@, name)]
     IN /\ proc' = [proc EXCEPT ![p] = afterBatch(pr, e.clients, e.conn)]
        /\ clients' = e.clients
        /\ conn' = e.conn
  /\ UNCHANGED <<caps, changes, calls, envConfigUrl, fetcher, scope, cachedConfig>>
  /\ UNCHANGED outsideManager

\* the new listings settle in some order: sort, stringify, compare
ReloadSnapshotNew(p, order, fails) ==
  /\ proc[p].pc = "snapNew"
  /\ order \in Perms(Len(proc[p].listing))
  /\ fails \in FailSets(proc[p].listing)
  /\ LET L == proc[p].listing
         lists == listsOf(L, caps, fails)
         new == snapshot(lists, order)
     IN proc' = [proc EXCEPT ![p].pc = "notify",
                             ![p].new = new,
                             ![p].newLists = byName(L, lists),
                             ![p].listing = <<>>,
                             ![p].changed = [k \in KindSet |->
                                 stringify(proc[p].old[k]) # stringify(new[k])]]
  /\ UNCHANGED <<clients, conn, caps, changes, calls, envConfigUrl, fetcher, scope, cachedConfig>>
  /\ UNCHANGED outsideManager

\* the list-changed notifications and the completion log are sent in their
\* order; failAt is the send that throws, "none" when every send goes through
ReloadNotify(p, failAt) ==
  /\ proc[p].pc = "notify"
  /\ failAt \in KindSet => proc[p].changed[failAt]
  /\ proc' = [proc EXCEPT
       ![p].sent = sendsBefore(Kinds, proc[p].changed, failAt),
       ![p].pc = IF failAt = "none" THEN "idle" ELSE "catch",
       ![p].outcome = IF failAt = "none" THEN "resolved" ELSE "running",
       ![p].result = IF failAt = "none"
                     THEN [success |-> proc[p].failed = <<>>, message |-> "complete",
                           connected |-> proc[p].connected, failed |-> proc[p].failed]
                     ELSE NoResult]
  /\ UNCHANGED <<clients, conn, caps, changes, calls, envConfigUrl, fetcher, scope, cachedConfig>>
  /\ UNCHANGED outsideManager

\* the catch block: the error log is awaited, then the failure result returned
ReloadCatch(p, logOk) ==
  /\ proc[p].pc = "catch"
  /\ proc' = [proc EXCEPT
       ![p].pc = "idle",
       ![p].outcome = IF logOk THEN "resolved" ELSE "rejected",
       ![p].result = IF logOk
                     THEN [success |-> FALSE, message |-> "failed",
                           connected |-> proc[p].connected, failed |-> proc[p].failed]
                     ELSE NoResult]
  /\ UNCHANGED <<clients, conn, caps, changes, calls, envConfigUrl, fetcher, scope, cachedConfig>>
  /\ UNCHANGED outsideManager


(***************************************************************************)
(* The proxy server's list and call / read / get request handlers          *)
(***************************************************************************)
\* server names, tool and prompt names and resource uris, as character
\* sequences: any non-empty string is a valid key of mcpServers
NameChars == {"a", "/", ":"}
NameStrings == StrSet(NameChars, MaxNameLen) \ {<<>>}

\* the names of the proxy's own tools
ReloadConfigToolName == <<"reload_config">>
DescribeToolsName == <<"describe_tools">>
UseToolName == <<"use_tool">>

\* Array.prototype.join(sep)
RECURSIVE join(_, _)
join(parts, sep) ==
  IF parts = <<>> THEN <<>>
  ELSE IF Len(parts) = 1 THEN parts[1]
  ELSE parts[1] \o <<sep>> \o join(Tail(parts), sep)

\* `${client.serverName}/${tool.name}` and `${client.serverName}://${resource.uri}`
prefixName(serverName, name) == serverName \o <<"/">> \o name
prefixUri(serverName, uri) == serverName \o <<":", "/", "/">> \o uri

\* const [serverName, ...toolNameParts] = name.split('/'); toolNameParts.join('/')
parsePrefixedName(name) ==
  LET parts == split(name, "/")
  IN [serverName |-> Head(parts), name |-> join(Tail(parts), "/")]

\* uri.match(/^([^:]+):\/\/(.+)$/): the first group ends at the first ':'
matchPrefixedUri(uri) ==
  LET colons == {i \in DOMAIN uri : uri[i] = ":"}
      i == Min(colons)
  IN IF colons # {} /\ i > 1 /\ Len(uri) >= i + 3 /\ uri[i + 1] = "/" /\ uri[i + 2] = "/"
     THEN [matched |-> TRUE, serverName |-> SubSeq(uri, 1, i - 1),
           name |-> SubSeq(uri, i + 3, Len(uri))]
     ELSE [matched |-> FALSE, serverName |-> <<>>, name |-> <<>>]

\* the keys a client's listing returns; an McpClient that is not connected throws
keysOf(cn, cp, e, kind) ==
  IF cn[e.conn].connected
  THEN [i \in DOMAIN cp[e.name][kind] |-> cp[e.name][kind][i].key]
  ELSE <<>>

\* results.flat() of the per-client listings, each item with its identifier
\* and, for reference, the backend and name it came from
RECURSIVE listAll(_, _, _, _, _)
listAll(cs, cn, cp, kind, prefixed) ==
  IF cs = <<>> THEN <<>>
  ELSE LET e == Head(cs)
           keys == keysOf(cn, cp, e, kind)
       IN [i \in DOMAIN keys |->
             [id |-> IF ~prefixed THEN keys[i]
                     ELSE IF kind = "resources" THEN prefixUri(e.name, keys[i])
                     ELSE prefixName(e.name, keys[i]),
              server |-> e.name, name |-> keys[i]]]
          \o listAll(Tail(cs), cn, cp, kind, prefixed)

\* the mutant: describe_tools and use_tool are defined in every mode
ownTools_allModes(progressive) ==
  LET own(n) == [id |-> n, server |-> <<>>, name |-> n]
  IN <<own(ReloadConfigToolName), own(DescribeToolsName), own(UseToolName)>>

\* the proxy's own tool definitions at the head of a tools listing
ownTools(progressive) ==
  LET own(n) == [id |-> n, server |-> <<>>, name |-> n]
  IN IF progressive THEN <<own(ReloadConfigToolName), own(DescribeToolsName), own(UseToolName)>>
     ELSE <<own(ReloadConfigToolName)>>

\* ListTools / ListResources / ListPrompts request handler
ListHandler(kind) ==
  /\ listed' = [kind |-> kind,
                items |-> IF kind = "tools" /\ options.progressive THEN ownTools(TRUE)
                          ELSE (IF kind = "tools" THEN ownTools(FALSE) ELSE <<>>)
                               \o listAll(clients, conn, caps, kind, options.useServerPrefix)]
  /\ UNCHANGED <<options, routed, described, used, called>>
  /\ UNCHANGED outsideHandlers

Route(kind, id, status, server, name) ==
  [kind |-> kind, id |-> id, status |-> status, server |-> server, name |-> name]

\* without prefix: the first client in map order whose listing has the id
firstWith(cs, cn, cp, kind, id) ==
  LET hits == {i \in DOMAIN cs : id \in Range(keysOf(cn, cp, cs[i], kind))}
  IN IF hits = {} THEN <<>> ELSE cs[Min(hits)].name

\* the routing all three handlers share once the proxy's own tools are set aside
routeRequest(kind, id) ==
  IF options.useServerPrefix
  THEN LET parsed == IF kind = "resources" THEN matchPrefixedUri(id)
                     ELSE [matched |-> TRUE] @@ parsePrefixedName(id)
       IN IF ~parsed.matched \/ parsed.serverName = <<>> \/ parsed.name = <<>>
          THEN Route(kind, id, "invalid", <<>>, <<>>)
          ELSE IF mapGet(clients, parsed.serverName) = 0
            THEN Route(kind, id, "no connection", parsed.serverName, parsed.name)
          ELSE IF ~conn[mapGet(clients, parsed.serverName)].connected
            THEN Route(kind, id, "failed", parsed.serverName, parsed.name)
          ELSE Route(kind, id, "sent", parsed.serverName, parsed.name)
  ELSE IF firstWith(clients, conn, caps, kind, id) = <<>>
    THEN Route(kind, id, "not found", <<>>, <<>>)
  ELSE Route(kind, id, "sent", firstWith(clients, conn, caps, kind, id), id)

\* CallTool / ReadResource / GetPrompt request handler
routeOf(kind, id) ==
  IF kind = "tools" /\ id = ReloadConfigToolName
  THEN Route(kind, id, "own tool", <<>>, id)
  ELSE IF kind = "tools" /\ options.progressive /\ id \in {DescribeToolsName, UseToolName}
    THEN Route(kind, id, "own tool", <<>>, id)
  ELSE routeRequest(kind, id)

RouteHandler(kind, id) ==
  /\ routed' = routeOf(kind, id)
  /\ UNCHANGED <<options, listed, described, used, called>>
  /\ UNCHANGED outsideHandlers


\* ReloadConfigTool.execute once the reload function has settled: the text of
\* the tool result as the sequence of its parts, constants and interpolated
\* values alike; a rejected reload gives the error's message
reloadConfigExecute(outcome, result) ==
  IF outcome = "resolved"
  THEN [isError |-> ~result.success,
        text |-> <<"use this slash command \"/mcp reconnect agiflow-proxy\"">>]
  ELSE [isError |-> TRUE, text |-> <<"Error reloading configuration: ", "error.message">>]


(***************************************************************************)
(* DescribeTools.execute                                                   *)
(***************************************************************************)
ToolNames == {"t1", "t2", "t3"}
ToolRequests == UNION {[1..n -> ToolNames] : n \in 0..MaxTools}

NoDescription ==
  [toolNames |-> <<>>, serverName |-> "", failing |-> {}, status |-> "none",
   tools |-> <<>>, notFound |-> <<>>, ambiguous |-> <<>>]
Description(toolNames, serverName, failing, status, tools, notFound, ambiguous) ==
  [toolNames |-> toolNames, serverName |-> serverName, failing |-> failing, status |-> status,
   tools |-> tools, notFound |-> notFound, ambiguous |-> ambiguous]

\* what client.listTools() of map entry e resolves to (its tool names);
\* threw when the client is not connected or the request fails
listToolsOf(cn, cp, failing, e) ==
  IF ~cn[e.conn].connected \/ e.name \in failing
  THEN [threw |-> TRUE, names |-> <<>>]
  ELSE [threw |-> FALSE, names |-> [i \in DOMAIN cp[e.name].tools |-> cp[e.name].tools[i].key]]

\* the branch with a server name, after getClient found the client e
RECURSIVE describeOn(_, _, _, _)
describeOn(rest, serverName, tools, acc) ==
  IF rest = <<>> THEN acc
  ELSE describeOn(Tail(rest), serverName, tools,
                  IF Head(rest) \in Range(tools)
                  THEN [acc EXCEPT !.tools = Append(@, [server |-> serverName, name |-> Head(rest)])]
                  ELSE [acc EXCEPT !.notFound = Append(@, Head(rest))])

\* one client's matches: an entry for every requested name its listing has
RECURSIVE matchesOf(_, _, _)
matchesOf(rest, server, tools) ==
  IF rest = <<>> THEN <<>>
  ELSE (IF Head(rest) \in Range(tools) THEN <<[toolName |-> Head(rest), server |-> server]>>
        ELSE <<>>) \o matchesOf(Tail(rest), server, tools)

\* results.flat(): the matches of all clients in map order; a listing that
\* threw gives none
RECURSIVE allMatches(_, _, _, _, _)
allMatches(cs, cn, cp, failing, toolNames) ==
  IF cs = <<>> THEN <<>>
  ELSE matchesOf(toolNames, Head(cs).name, listToolsOf(cn, cp, failing, Head(cs)).names)
       \o allMatches(Tail(cs), cn, cp, failing, toolNames)

\* toolMatches.get(toolName): the servers of the matches filed under the name
RECURSIVE serversOf(_, _)
serversOf(matches, toolName) ==
  IF matches = <<>> THEN <<>>
  ELSE (IF Head(matches).toolName = toolName THEN <<Head(matches).server>> ELSE <<>>)
       \o serversOf(Tail(matches), toolName)

\* the mutant: several matches are passed over like none
RECURSIVE describeEach_noAmbiguous(_, _, _)
describeEach_noAmbiguous(rest, matches, acc) ==
  IF rest = <<>> THEN acc
  ELSE LET toolName == Head(rest)
           servers == serversOf(matches, toolName)
       IN describeEach_noAmbiguous(Tail(rest), matches,
            IF Len(servers) # 1 THEN acc
            ELSE [acc EXCEPT !.tools = Append(@, [server |-> servers[1], name |-> toolName]),
                             !.notFound = Without(@, toolName)])

\* the loop over the requested names of the branch without a server name
RECURSIVE describeEach(_, _, _)
describeEach(rest, matches, acc) ==
  IF rest = <<>> THEN acc
  ELSE LET toolName == Head(rest)
           servers == serversOf(matches, toolName)
       IN describeEach(Tail(rest), matches,
            IF Len(servers) = 0 THEN acc
            ELSE IF Len(servers) = 1
              THEN [acc EXCEPT !.tools = Append(@, [server |-> servers[1], name |-> toolName]),
                               !.notFound = Without(@, toolName)]
            ELSE [acc EXCEPT !.ambiguous = Append(@, [toolName |-> toolName, servers |-> servers]),
                             !.notFound = Without(@, toolName)])

describeTools(toolNames, serverName, failing, cs, cn, cp) ==
  LET none == [tools |-> <<>>, notFound |-> <<>>, ambiguous |-> <<>>]
      D(status, r) == Description(toolNames, serverName, failing, status,
                                  r.tools, r.notFound, r.ambiguous)
  IN IF toolNames = <<>> THEN D("no names", none)
     ELSE IF serverName # ""
     THEN IF ~mapHas(cs, serverName) THEN D("server not found", none)
          ELSE LET e == cs[CHOOSE i \in DOMAIN cs : cs[i].name = serverName]
                   l == listToolsOf(cn, cp, failing, e)
                   r == describeOn(toolNames, serverName, l.names, none)
               IN IF l.threw THEN D("error", none)
                  ELSE IF r.tools = <<>> THEN D("none found", none)
                  ELSE D("ok", r)
     ELSE LET r == describeEach(toolNames, allMatches(cs, cn, cp, failing, toolNames),
                                [none EXCEPT !.notFound = toolNames])
          IN IF r.tools = <<>> /\ r.ambiguous = <<>> THEN D("none found", none)
             ELSE D("ok", r)

\* a describe_tools call; the listings of the servers in failing reject
DescribeHandler(toolNames, serverName, failing) ==
  /\ described' = describeTools(toolNames, serverName, failing, clients, conn, caps)
  /\ UNCHANGED <<options, listed, routed, used, called>>
  /\ UNCHANGED outsideHandlers

(***************************************************************************)
(* UseToolTool.execute and the forwarding of the CallTool request handler  *)
(***************************************************************************)
\* tool arguments as the JSON text of the value; "undefined" is an absent one
ArgValues == {"undefined", "{}", "{x}"}

\* what a client gets back: the backend's own tool result, which is a
\* function of the call the backend received, a CallToolResult with isError
\* composed by the proxy, or an error thrown by the request handler
Reply(kind, server, name, args) == [kind |-> kind, server |-> server, name |-> name, args |-> args]
NoReply == Reply("none", <<>>, <<>>, "undefined")
errorResult == Reply("error result", <<>>, <<>>, "undefined")
thrownError == Reply("thrown error", <<>>, <<>>, "undefined")

Forwarding(status, toolName, toolArgs, hint, failing, rejecting, received, reply) ==
  [status |-> status, toolName |-> toolName, toolArgs |-> toolArgs, hint |-> hint,
   failing |-> failing, rejecting |-> rejecting, received |-> received, reply |-> reply]
NoUse == Forwarding("none", <<>>, "undefined", {}, {}, {}, {}, NoReply)
NoCall == Forwarding("none", <<>>, "undefined", {}, {}, {}, {}, NoReply)

\* McpClient.callTool(name, args) on map entry e: throws before sending when
\* the client is not connected; the backends in rejecting answer with an error
callToolOn(cn, rejecting, e, name, args) ==
  IF ~cn[e.conn].connected THEN [threw |-> TRUE, received |-> {}, result |-> NoReply]
  ELSE [threw |-> e.name \in rejecting,
        received |-> {[server |-> e.name, name |-> name, args |-> args]},
        result |-> Reply("result", e.name, name, args)]

\* matchingServers: the servers whose listing has the tool, in map order; a
\* listing that threw counts as not having it
RECURSIVE matchingServers(_, _, _, _, _)
matchingServers(cs, cn, cp, failing, toolName) ==
  IF cs = <<>> THEN <<>>
  ELSE (IF toolName \in Range(listToolsOf(cn, cp, failing, Head(cs)).names)
        THEN <<Head(cs).name>> ELSE <<>>)
       \o matchingServers(Tail(cs), cn, cp, failing, toolName)

\* the mutant: a server name given with the call is passed over
useTool_hintIgnored(toolName, toolArgs, hint, failing, rejecting, cs, cn, cp) ==
  LET args == IF toolArgs = "undefined" THEN "{}" ELSE toolArgs
      U(status, received, reply) ==
        Forwarding(status, toolName, toolArgs, hint, failing, rejecting, received, reply)
      on(serverName) ==
        LET c == callToolOn(cn, rejecting, [name |-> serverName, conn |-> mapGet(cs, serverName)], toolName, args)
        IN IF c.threw THEN U("call failed", c.received, errorResult)
           ELSE U("sent", c.received, c.result)
      matching == matchingServers(cs, cn, cp, failing, toolName)
  IN IF Len(matching) = 0 THEN U("not found", {}, errorResult)
     ELSE IF Len(matching) > 1 THEN U("multiple", {}, errorResult)
     ELSE on(matching[1])

\* execute({ toolName, toolArgs = {}, serverName }); hint is {serverName}, or
\* {} for a call without a (non-empty) server name
useTool(toolName, toolArgs, hint, failing, rejecting, cs, cn, cp) ==
  LET args == IF toolArgs = "undefined" THEN "{}" ELSE toolArgs
      U(status, received, reply) ==
        Forwarding(status, toolName, toolArgs, hint, failing, rejecting, received, reply)
      on(serverName) ==
        LET c == callToolOn(cn, rejecting, [name |-> serverName, conn |-> mapGet(cs, serverName)], toolName, args)
        IN IF c.threw THEN U("call failed", c.received, errorResult)
           ELSE U("sent", c.received, c.result)
      matching == matchingServers(cs, cn, cp, failing, toolName)
  IN IF hint # {}
     THEN LET serverName == CHOOSE n \in hint : TRUE
          IN IF ~mapHas(cs, serverName) THEN U("server not found", {}, errorResult)
             ELSE on(serverName)
     ELSE IF Len(matching) = 0 THEN U("not found", {}, errorResult)
     ELSE IF Len(matching) > 1 THEN U("multiple", {}, errorResult)
     ELSE on(matching[1])

\* a use_tool call; the listings of the servers in failing and the tool calls
\* of the servers in rejecting reject
UseToolHandler(toolName, toolArgs, hint, failing, rejecting) ==
  /\ used' = useTool(toolName, toolArgs, hint, failing, rejecting, clients, conn, caps)
  /\ UNCHANGED <<options, listed, routed, described, called>>
  /\ UNCHANGED outsideHandlers

\* the unprefixed branch of the CallTool request handler: the clients in map
\* order; a listing or a call that throws is logged and the next client tried
RECURSIVE searchAndCall(_, _, _, _, _, _, _, _)
searchAndCall(cs, cn, cp, failing, rejecting, name, args, received) ==
  IF cs = <<>> THEN [status |-> "not found", received |-> received, reply |-> thrownError]
  ELSE LET e == Head(cs)
           c == callToolOn(cn, rejecting, e, name, args)
       IN IF name \in Range(listToolsOf(cn, cp, failing, e).names)
          THEN IF c.threw
               THEN searchAndCall(Tail(cs), cn, cp, failing, rejecting, name, args,
                                  received \cup c.received)
               ELSE [status |-> "sent", received |-> received \cup c.received, reply |-> c.result]
          ELSE searchAndCall(Tail(cs), cn, cp, failing, rejecting, name, args, received)

\* the CallTool request handler: the proxy's own tools are set aside, the
\* arguments are passed on as they came, the backend's result is returned
\* and every failure is thrown
callTool(name, args, failing, rejecting, cs, cn, cp, route) ==
  LET C(status, received, reply) ==
        Forwarding(status, name, args, {}, failing, rejecting, received, reply)
  IN IF route.status = "own tool" THEN C("own tool", {}, NoReply)
     ELSE IF ~options.useServerPrefix
       THEN LET r == searchAndCall(cs, cn, cp, failing, rejecting, name, args, {})
            IN C(r.status, r.received, r.reply)
     ELSE IF route.status # "sent" THEN C(route.status, {}, thrownError)
     ELSE LET c == callToolOn(cn, rejecting,
                              [name |-> route.server, conn |-> mapGet(cs, route.server)],
                              route.name, args)
          IN IF c.threw THEN C("failed", c.received, thrownError)
             ELSE C("sent", c.received, c.result)

\* a call-tool request; the listings of the servers in failing and the tool
\* calls of the servers in rejecting reject
CallToolHandler(name, args, failing, rejecting) ==
  /\ called' = callTool(name, args, failing, rejecting, clients, conn, caps, routeOf("tools", name))
  /\ UNCHANGED <<options, listed, routed, described, used>>
  /\ UNCHANGED outsideHandlers

(***************************************************************************)
(* Configuration resolution: parseMcpConfig, mergeConfigurations and       *)
(* fetchConfiguration                                                      *)
(***************************************************************************)
\* JavaScript values.  An object is the function from its own keys to their
\* values; a key may be present with the value undefined.  Every other value
\* carries its type.
Undefined == [undef |-> TRUE]
Null == [null |-> TRUE]
Str(s) == [str |-> s]
Arr(a) == [arr |-> a]
Bool(b) == [bool |-> b]
EmptyObject == [k \in {} |-> Undefined]

\* 'k' in o
hasKey(o, k) == k \in DOMAIN o
\* o.k
prop(o, k) == IF k \in DOMAIN o THEN o[k] ELSE Undefined
\* { ...a, ...b }
spread(a, b) == [k \in (DOMAIN a) \cup (DOMAIN b) |-> IF k \in DOMAIN b THEN b[k] ELSE a[k]]
\* { ...a, k: v }
withKey(a, k, v) == [j \in (DOMAIN a) \cup {k} |-> IF j = k THEN v ELSE a[j]]
pick(o, keys) == [k \in (DOMAIN o) \cap keys |-> o[k]]
truthy(v) == v # Undefined /\ v # Null /\ v # Bool(FALSE) /\ v # Str("")
\* v || {}
orEmpty(v) == IF truthy(v) THEN v ELSE EmptyObject

\* process.env holds HOME only
processEnv == [HOME |-> "/home"]
VarRefs == [HOME |-> "${HOME}", NONE |-> "${NONE}"]

\* value.replace(/\$\{([^}]+)\}/g, ...) on the strings used here: a string is
\* either one reference ${VAR} or has no reference at all
interpolateEnvVars(value) ==
  IF \E v \in DOMAIN VarRefs : VarRefs[v] = value
  THEN LET varName == CHOOSE v \in DOMAIN VarRefs : VarRefs[v] = value
       IN IF varName \in DOMAIN processEnv THEN processEnv[varName] ELSE value
  ELSE value

interpolateEnvVarsInObject(obj) == [k \in DOMAIN obj |-> interpolateEnvVars(obj[k])]

StdioKeys == {"command", "args", "env", "disabled", "instruction"}
HttpKeys == {"url", "headers", "type", "disabled", "instruction"}

\* ClaudeCodeServerConfigSchema: the first member of the union that accepts
\* the entry, its unknown keys stripped
claudeCodeServer(e) ==
  IF hasKey(e, "command") THEN pick(e, StdioKeys)
  ELSE IF hasKey(e, "url") THEN pick(e, HttpKeys)
  ELSE Null

transformServer(serverName, serverConfig) ==
  IF hasKey(serverConfig, "command")
  THEN [name |-> Str(serverName),
        instruction |-> prop(serverConfig, "instruction"),
        transport |-> Str("stdio"),
        config |-> [command |-> Str(interpolateEnvVars(serverConfig.command.str)),
                    args |-> IF hasKey(serverConfig, "args")
                             THEN Arr([i \in DOMAIN serverConfig.args.arr |->
                                         interpolateEnvVars(serverConfig.args.arr[i])])
                             ELSE Undefined,
                    env |-> IF truthy(prop(serverConfig, "env"))
                            THEN interpolateEnvVarsInObject(serverConfig.env)
                            ELSE Undefined]]
  ELSE [name |-> Str(serverName),
        instruction |-> prop(serverConfig, "instruction"),
        transport |-> IF prop(serverConfig, "type") = Str("sse") THEN Str("sse") ELSE Str("http"),
        config |-> [url |-> Str(interpolateEnvVars(serverConfig.url.str)),
                    headers |-> IF truthy(prop(serverConfig, "headers"))
                                THEN interpolateEnvVarsInObject(serverConfig.headers)
                                ELSE Undefined]]

\* the mutant: disabled entries are transformed like the others
transformClaudeCodeConfig_keepDisabled(claudeConfig) ==
  [n \in {m \in DOMAIN claudeConfig :
            hasKey(claudeConfig[m], "command") \/ hasKey(claudeConfig[m], "url")}
     |-> transformServer(n, claudeConfig[n])]

\* the resolved mcpServers record from the mcpServers record of a source
transformClaudeCodeConfig(claudeConfig) ==
  [n \in {m \in DOMAIN claudeConfig :
            /\ ~(hasKey(claudeConfig[m], "disabled") /\ claudeConfig[m].disabled = Bool(TRUE))
            /\ (hasKey(claudeConfig[m], "command") \/ hasKey(claudeConfig[m], "url"))}
     |-> transformServer(n, claudeConfig[n])]

\* parseMcpConfig: throws (ok = FALSE) on a payload outside the schema
parseMcpConfig(rawConfig) ==
  IF rawConfig = Null \/ \E n \in DOMAIN rawConfig : claudeCodeServer(rawConfig[n]) = Null
  THEN [ok |-> FALSE, config |-> EmptyObject]
  ELSE [ok |-> TRUE,
        config |-> transformClaudeCodeConfig([n \in DOMAIN rawConfig |->
                                                 claudeCodeServer(rawConfig[n])])]

Strategies == {"local-priority", "remote-priority", "merge-deep"}

\* one server of merge-deep that both sources have
mergeDeepServer(remoteServer, localServerConfig) ==
  LET mergedConfig == spread(remoteServer.config, localServerConfig.config)
      remoteEnv == prop(remoteServer.config, "env")
      localEnv == prop(localServerConfig.config, "env")
      withEnv == IF truthy(remoteEnv) \/ truthy(localEnv)
                 THEN withKey(mergedConfig, "env", spread(orEmpty(remoteEnv), orEmpty(localEnv)))
                 ELSE mergedConfig
      remoteHeaders == prop(remoteServer.config, "headers")
      localHeaders == prop(localServerConfig.config, "headers")
      withHeaders == IF truthy(remoteHeaders) \/ truthy(localHeaders)
                     THEN withKey(withEnv, "headers",
                                  spread(orEmpty(remoteHeaders), orEmpty(localHeaders)))
                     ELSE withEnv
  IN withKey(spread(remoteServer, localServerConfig), "config", withHeaders)

\* the mutant: local-priority spreads the local servers first
mergeConfigurations_remoteLast(mergeStrategy, localConfig, remoteConfig) ==
  IF mergeStrategy = "merge-deep"
  THEN [n \in (DOMAIN remoteConfig) \cup (DOMAIN localConfig) |->
          IF n \in DOMAIN localConfig /\ n \in DOMAIN remoteConfig
          THEN mergeDeepServer(remoteConfig[n], localConfig[n])
          ELSE IF n \in DOMAIN localConfig THEN localConfig[n] ELSE remoteConfig[n]]
  ELSE spread(localConfig, remoteConfig)

mergeConfigurations(mergeStrategy, localConfig, remoteConfig) ==
  IF mergeStrategy = "local-priority" THEN spread(remoteConfig, localConfig)
  ELSE IF mergeStrategy = "remote-priority" THEN spread(localConfig, remoteConfig)
  ELSE [n \in (DOMAIN remoteConfig) \cup (DOMAIN localConfig) |->
          IF n \in DOMAIN localConfig /\ n \in DOMAIN remoteConfig
          THEN mergeDeepServer(remoteConfig[n], localConfig[n])
          ELSE IF n \in DOMAIN localConfig THEN localConfig[n] ELSE remoteConfig[n]]

\* what reading a source gives: Null when the file is missing or the request
\* fails, otherwise the parsed JSON (its mcpServers record)
loadSource(raw) == IF raw = Null THEN [ok |-> FALSE, config |-> EmptyObject] ELSE parseMcpConfig(raw)

\* the constructor's part in caching and merging (options.x || default)
newResolver(hasFile, hasUrl, optStrategy, optTtl) ==
  [configFilePath |-> hasFile, configUrl |-> hasUrl,
   mergeStrategy |-> IF optStrategy = "" THEN "local-priority" ELSE optStrategy,
   cacheTtlMs |-> IF optTtl = 0 THEN 60000 ELSE optTtl,
   cachedConfig |-> Null, lastFetchTime |-> 0]

IdleFetch ==
  [pc |-> "idle", id |-> 0, ctx |-> NoCtx, now |-> 0, contacted |-> FALSE,
   fileOk |-> FALSE, urlOk |-> FALSE, outcome |-> "none", config |-> EmptyObject]

cacheHit(r, t, ctx) ==
  r.cachedConfig # Null /\ t - r.lastFetchTime < r.cacheTtlMs /\ ~ctx.given

\* fetchConfiguration(context) up to its await: the cached configuration is
\* returned, or the loads are started
FetchCall(p, ctx) ==
  /\ fetches[p].pc # "loading"
  /\ fetchSeq < MaxFetches
  /\ fetchSeq' = fetchSeq + 1
  /\ fetches' = [fetches EXCEPT ![p] =
       IF cacheHit(resolver, dateNow, ctx)
       THEN [IdleFetch EXCEPT !.pc = "done", !.id = fetchSeq + 1, !.ctx = ctx, !.now = dateNow,
                              !.outcome = "resolved", !.config = resolver.cachedConfig]
       ELSE [IdleFetch EXCEPT !.pc = "loading", !.id = fetchSeq + 1, !.ctx = ctx,
                              !.now = dateNow, !.contacted = TRUE]]
  /\ UNCHANGED <<fileSrc, urlSrc, resolver, dateNow, newest>>
  /\ UNCHANGED outsideResolver

\* the loads settle: Promise.all of both, or the only one; the merge, and the
\* cache when the call had no context
FetchSettle(p) ==
  /\ fetches[p].pc = "loading"
  /\ LET f == fetches[p]
         localConfig == loadSource(fileSrc)
         remoteConfig == loadSource(urlSrc)
         ok == /\ resolver.configFilePath => localConfig.ok
               /\ resolver.configUrl => remoteConfig.ok
         config == IF resolver.configFilePath /\ resolver.configUrl
                   THEN mergeConfigurations(resolver.mergeStrategy, localConfig.config,
                                            remoteConfig.config)
                   ELSE IF resolver.configFilePath THEN localConfig.config
                   ELSE remoteConfig.config
     IN /\ fetches' = [fetches EXCEPT ![p] =
             [f EXCEPT !.pc = "done",
                       !.fileOk = resolver.configFilePath /\ localConfig.ok,
                       !.urlOk = resolver.configUrl /\ remoteConfig.ok,
                       !.outcome = IF ok THEN "resolved" ELSE "rejected",
                       !.config = IF ok THEN config ELSE EmptyObject]]
        /\ IF ok /\ ~f.ctx.given
           THEN /\ resolver' = [resolver EXCEPT !.cachedConfig = config, !.lastFetchTime = f.now]
                /\ newest' = IF f.now > newest THEN f.now ELSE newest
           ELSE UNCHANGED <<resolver, newest>>
  /\ UNCHANGED <<fileSrc, urlSrc, dateNow, fetchSeq>>
  /\ UNCHANGED outsideResolver

\* clearCache()
ClearCache ==
  /\ resolver' = [resolver EXCEPT !.cachedConfig = Null, !.lastFetchTime = 0]
  /\ newest' = 0 - 1
  /\ UNCHANGED <<fileSrc, urlSrc, dateNow, fetches, fetchSeq>>
  /\ UNCHANGED outsideResolver

\* Date.now() moves on
ClockAdvance ==
  /\ dateNow < MaxClock
  /\ dateNow' = dateNow + 1
  /\ UNCHANGED <<fileSrc, urlSrc, resolver, fetches, fetchSeq, newest>>
  /\ UNCHANGED outsideResolver

\* the file is edited, or the remote configuration is changed
SourceChange(file, raw) ==
  /\ IF file THEN fileSrc' = raw /\ fileSrc # raw /\ UNCHANGED urlSrc
             ELSE urlSrc' = raw /\ urlSrc # raw /\ UNCHANGED fileSrc
  /\ UNCHANGED <<resolver, dateNow, fetches, fetchSeq, newest>>
  /\ UNCHANGED outsideResolver

(***************************************************************************)
(* createServerWithReload: start-up                                        *)
(***************************************************************************)
StartupNames == {"a", "b", "c"}
\* Object.entries(config.mcpServers): distinct names in any order
StartupConfigs ==
  {cfg \in UNION {[1..n -> StartupNames] : n \in 0..MaxServers} :
     \A i, j \in DOMAIN cfg : cfg[i] = cfg[j] => i = j}

Booting ==
  [pc |-> "fetching", fetchOk |-> FALSE, config |-> <<>>, cur |-> <<>>, pending |-> {},
   succeeded |-> {}]
Started == [Booting EXCEPT !.pc = "started"]

\* the connection tasks of the start-up, started one after the other: each
\* runs connectToServer up to its await
RECURSIVE startConnections(_, _, _, _)
startConnections(cfg, cs, cn, b) ==
  IF cfg = <<>> THEN [conn |-> cn, boot |-> b]
  ELSE IF mapHas(cs, Head(cfg))
    THEN startConnections(Tail(cfg), cs, cn, b)
  ELSE startConnections(Tail(cfg), cs, newMcpClient(cn, Head(cfg)),
                        [b EXCEPT !.cur = Append(b.cur, [name |-> Head(cfg), c |-> Len(cn) + 1]),
                                  !.pending = b.pending \cup {Head(cfg)}])

\* the earlier start-up: the failure of the fetch is logged and thrown again
startupCatch_rethrow(b, logOk) == [b EXCEPT !.pc = "crashed"]

\* the catch of the start-up: saveErrorLog may throw, which is caught too;
\* the server is created without remote servers
startupCatch(b, logOk) == [b EXCEPT !.pc = "started"]

\* Promise.all(connectionPromises) resolves once every task has settled
startupJoin(b) == IF b.pending = {} THEN [b EXCEPT !.pc = "started"] ELSE b

\* the awaited fetchConfiguration() of the start-up settles
StartupFetch(ok, cfg, logOk) ==
  /\ boot.pc = "fetching"
  /\ IF ok
     THEN LET s == startConnections(cfg, clients, conn,
                                    [boot EXCEPT !.pc = "connecting", !.fetchOk = TRUE,
                                                 !.config = cfg])
          IN /\ conn' = s.conn
             /\ boot' = startupJoin(s.boot)
     ELSE /\ boot' = startupCatch(boot, logOk)
          /\ UNCHANGED conn
  /\ UNCHANGED <<clients, caps, changes, calls, envConfigUrl, fetcher, scope, cachedConfig, proc>>
  /\ UNCHANGED outsideStartup

\* the connectToServer of one server settles; its failure is logged by the
\* task and goes no further
StartupConnected(name, ok) ==
  /\ boot.pc = "connecting"
  /\ name \in boot.pending
  /\ LET c == (CHOOSE x \in Range(boot.cur) : x.name = name).c
         e == connectToServer_end(clients, conn, name, c, ok)
     IN /\ clients' = e.clients
        /\ conn' = e.conn
        /\ boot' = startupJoin([boot EXCEPT !.pending = boot.pending \ {name},
                                            !.succeeded = IF e.threw THEN boot.succeeded
                                                          ELSE boot.succeeded \cup {name}])
  /\ UNCHANGED <<caps, changes, calls, envConfigUrl, fetcher, scope, cachedConfig, proc>>
  /\ UNCHANGED outsideStartup

(***************************************************************************)
(* createOAuthCallbackServer: listening, LockfileService and the OAuth     *)
(* flow of connectHttpClient / connectSseClient                            *)
(***************************************************************************)
\* ports: "0" asks for an auto-assigned port, "p1" is a port given by the
\* caller, "p2" the port the system assigns
AutoPort == "0"
Ports == {AutoPort, "p1"}
ListenOutcomes == {"listening", "EADDRINUSE", "EACCES"}

NoCreation ==
  [pc |-> "none", port |-> AutoPort, retryAttempted |-> FALSE, first |-> "none", retry |-> "none",
   promise |-> "none", value |-> "", listening |-> {}]

\* resolve / reject of a promise: only the first one settles it
settle(c, how, value) ==
  IF c.promise = "pending" THEN [c EXCEPT !.promise = how, !.value = value] ELSE c

\* the port server.address() reports once listening
actualPort(port) == IF port = AutoPort THEN "p2" ELSE port

\* the first 'error' listener (retry on EADDRINUSE of a given port, else reject)
onError(c, code) ==
  IF code = "EADDRINUSE" /\ c.port # AutoPort /\ ~c.retryAttempted
  THEN [c EXCEPT !.retryAttempted = TRUE, !.pc = "retry"]
  ELSE [settle(c, "rejected", code) EXCEPT !.pc = "done"]

\* the 'error' listener registered last: server.on('error', reject)
onErrorReject(c, code) == settle(c, "rejected", code)

\* server.emit('error', err): the listeners run in the order they were added
emitError(c, code) == onErrorReject(onError(c, code), code)

\* the promise executor up to server.listen(port, ...)
CreateServer(port) ==
  /\ creation.pc = "none"
  /\ creation' = [NoCreation EXCEPT !.pc = "listen", !.port = port, !.promise = "pending"]
  /\ UNCHANGED <<lockfile, lockCheck, http, provider>>
  /\ UNCHANGED <<oauthVars, mgrVars, handlerVars, resolverVars, bootVars, authVars>>

\* server.listen settles: the listening callback resolves with the server and
\* its port, or the 'error' event is emitted
ListenSettles(outcome) ==
  /\ creation.pc = "listen"
  /\ creation' =
       IF outcome = "listening"
       THEN [settle(creation, "resolved", actualPort(creation.port)) EXCEPT
               !.pc = "done", !.first = outcome,
               !.listening = @ \cup {actualPort(creation.port)}]
       ELSE [emitError(creation, outcome) EXCEPT !.first = outcome]
  /\ UNCHANGED <<lockfile, lockCheck, http, provider>>
  /\ UNCHANGED <<oauthVars, mgrVars, handlerVars, resolverVars, bootVars, authVars>>

\* the retry, createOAuthCallbackServer({ path, authTimeoutMs, port: 0 }),
\* settles: .then(resolve).catch(reject) of the outer promise
RetrySettles(outcome) ==
  /\ creation.pc = "retry"
  /\ creation' =
       IF outcome = "listening"
       THEN [settle(creation, "resolved", actualPort(AutoPort)) EXCEPT
               !.pc = "done", !.retry = outcome, !.listening = @ \cup {actualPort(AutoPort)}]
       ELSE [settle(creation, "rejected", outcome) EXCEPT !.pc = "done", !.retry = outcome]
  /\ UNCHANGED <<lockfile, lockCheck, http, provider>>
  /\ UNCHANGED <<oauthVars, mgrVars, handlerVars, resolverVars, bootVars, authVars>>

\* the lockfile of a server URL: absent, a LockfileData, or content that
\* JSON.parse rejects
MaxLockAge == 1
Pids == {"own", "other"}
NoLockfile == [state |-> "none", pid |-> "", port |-> "", timestamp |-> 0]
LockfileData(pid, port, timestamp) ==
  [state |-> "lock", pid |-> pid, port |-> port, timestamp |-> timestamp]
\* the outcome of a fetch: answered with a status, or failed (status 0)
Answered(status) == [answered |-> TRUE, status |-> status]
Refused == [answered |-> FALSE, status |-> 0]
NoLockCheck ==
  [status |-> "none", found |-> NoLockfile, alive |-> FALSE, age |-> 0, probe |-> Refused,
   returned |-> NoLockfile, after |-> NoLockfile]

\* readLockfile: null (NoLockfile) when the file is missing or cannot be parsed
readLockfile(f) == IF f.state = "lock" THEN f ELSE NoLockfile

\* isLockValid: not older than MAX_LOCK_AGE and process.kill(pid, 0) does not throw
isLockValid(lockData, dateNowMs, alive) ==
  IF dateNowMs - lockData.timestamp > MaxLockAge THEN FALSE ELSE alive

\* GET http://127.0.0.1:<port>/wait-for-auth?poll=false as the callback server
\* listening on the port answers it; the fetch fails when nothing listens there
probe(listening, ss, rs, port) ==
  IF port \in listening THEN Answered(waitForAuthRoute(ss, rs, <<>>, FALSE, 0).status)
  ELSE Refused

\* isEndpointAccessible: response.status === 200 || response.status === 202
isEndpointAccessible(answer) == answer.answered /\ answer.status \in {200, 202}

\* checkLockfile(serverUrl); deleteOk is whether unlink goes through
checkLockfile(f, dateNowMs, alive, answer, deleteOk) ==
  LET lockData == readLockfile(f)
      C(status, returned, after) ==
        [status |-> status, found |-> f, alive |-> alive, age |-> dateNowMs - f.timestamp,
         probe |-> answer, returned |-> returned, after |-> after]
  IN IF lockData = NoLockfile THEN C("nothing", NoLockfile, f)
     ELSE IF isLockValid(lockData, dateNowMs, alive) /\ isEndpointAccessible(answer)
       THEN C("lock", lockData, f)
     ELSE IF deleteOk THEN C("nothing", NoLockfile, NoLockfile)
     ELSE C("threw", NoLockfile, f)

\* a checkLockfile call on its own
CheckLockfile(alive, deleteOk) ==
  LET c == checkLockfile(lockfile, now, alive,
                         probe(creation.listening, sessions, res, lockfile.port), deleteOk)
  IN /\ lockCheck' = c
     /\ lockfile' = c.after
     /\ UNCHANGED <<creation, http, provider>>
     /\ UNCHANGED <<oauthVars, mgrVars, handlerVars, resolverVars, bootVars, authVars>>

\* createLockfile(serverUrl, port) by the process pid
CreateLockfile(pid, port) ==
  /\ lockfile' = LockfileData(pid, port, now)
  /\ UNCHANGED <<creation, lockCheck, http, provider>>
  /\ UNCHANGED <<oauthVars, mgrVars, handlerVars, resolverVars, bootVars, authVars>>

\* the file is left with content that is no JSON (a write cut short)
CorruptLockfile ==
  /\ lockfile.state = "lock"
  /\ lockfile' = [lockfile EXCEPT !.state = "corrupt"]
  /\ UNCHANGED <<creation, lockCheck, http, provider>>
  /\ UNCHANGED <<oauthVars, mgrVars, handlerVars, resolverVars, bootVars, authVars>>

\* a McpOAuthClientProvider: the session set by setSession (bound FALSE when
\* none was set), whether a redirect callback was given to the constructor,
\* and what its last redirectToAuthorization call did: the outcome, the state
\* parameter of the URL, whether the callback was invoked with it or the URL
\* was printed
NoSession == [bound |-> FALSE, sessionId |-> <<>>, state |-> <<>>]
OAuthSession(sessionId, state) == [bound |-> TRUE, sessionId |-> sessionId, state |-> state]
NoProvider ==
  [owner |-> "none", session |-> NoSession, onRedirectCallback |-> FALSE,
   status |-> "none", url |-> <<>>, invoked |-> FALSE, printed |-> FALSE]
newProvider(owner, onRedirectCallback) ==
  [NoProvider EXCEPT !.owner = owner, !.onRedirectCallback = onRedirectCallback]
setSession(p, session) == [p EXCEPT !.session = session]

\* the mutant: the URL is handed on whether a session is bound or not
redirectToAuthorization_unchecked(p, urlState) ==
  LET stateParameter == stateParam(p.session.sessionId, p.session.state) IN
  IF p.onRedirectCallback
  THEN [p EXCEPT !.status = "ok", !.url = stateParameter, !.invoked = TRUE]
  ELSE [p EXCEPT !.status = "ok", !.url = stateParameter, !.printed = TRUE]

\* redirectToAuthorization(authorizationUrl); urlState is the state parameter
\* the URL comes with, which searchParams.set replaces
redirectToAuthorization(p, urlState) ==
  IF ~p.session.bound THEN [p EXCEPT !.status = "threw", !.url = urlState]
  ELSE LET stateParameter == stateParam(p.session.sessionId, p.session.state) IN
       IF p.onRedirectCallback
       THEN [p EXCEPT !.status = "ok", !.url = stateParameter, !.invoked = TRUE]
       ELSE [p EXCEPT !.status = "ok", !.url = stateParameter, !.printed = TRUE]

\* a provider made on its own: new McpOAuthClientProvider(...), setSession
\* when a session is at hand, then redirectToAuthorization
UrlStates == {<<>>, <<"a", ":", "a">>}
ProviderRedirect(session, onRedirectCallback, urlState) ==
  /\ provider' = redirectToAuthorization(
                   IF session.bound THEN setSession(newProvider("caller", onRedirectCallback), session)
                   ELSE newProvider("caller", onRedirectCallback), urlState)
  /\ UNCHANGED <<creation, lockfile, lockCheck, http>>
  /\ UNCHANGED <<oauthVars, mgrVars, handlerVars, resolverVars, bootVars, authVars>>

\* a connectToServer call for an http / sse backend: position and locals of
\* connectHttpClient / connectSseClient (the two differ in the transport only)
NoHttp ==
  [pc |-> "idle", name |-> "", cur |-> 0, session |-> <<>>, state |-> <<>>, wait |-> 0, attempts |-> 0,
   first |-> "none", waited |-> "none", second |-> "none", outcome |-> "none"]
ConnectResults == {"ok", "unauthorized", "error"}

\* waitForAuthCode(sessionId) up to its first checkAuth: the promise it returns
waitForAuthCode(ss, sessionId, t) ==
  LET first == IF sessionId \notin DOMAIN ss
               THEN [status |-> "rejected", value |-> "Invalid session ID"]
               ELSE checkAuth(ss, sessionId)
  IN [sessionId |-> sessionId, status |-> first.status, value |-> first.value,
      deadline |-> t + authTimeoutMs]

\* the mutant: the wait and the retry follow any failure of the first attempt
onConnectError_anyError(result, hasServerAndSession) ==
  IF hasServerAndSession THEN "wait" ELSE "throw"

\* the catch of the first client.connect(transport)
onConnectError(result, hasServerAndSession) ==
  IF result = "unauthorized" /\ hasServerAndSession THEN "wait" ELSE "throw"

\* connectToServer's own ending: setConnected(true) and clients.set, or the
\* catch that closes the new client and rethrows
httpEnd(ok) ==
  LET e == connectToServer_end(clients, conn, http.name, http.cur, ok) IN
  /\ clients' = e.clients
  /\ conn' = e.conn

\* connectToServer(name, {transport: 'http' | 'sse', ...}) up to the await of
\* checkLockfile
HttpConnectCall(name) ==
  /\ http.pc = "idle"
  /\ http.outcome = "none"
  /\ IF mapHas(clients, name)
     THEN /\ http' = [NoHttp EXCEPT !.name = name, !.outcome = "rejected"]
          /\ conn' = conn
     ELSE /\ http' = [NoHttp EXCEPT !.pc = "checkLockfile", !.name = name, !.cur = Len(conn) + 1]
          /\ conn' = newMcpClient(conn, name)
  /\ UNCHANGED <<clients, caps, changes, calls, envConfigUrl, fetcher, scope, cachedConfig, proc>>
  /\ UNCHANGED <<creation, lockfile, lockCheck, provider>>
  /\ UNCHANGED <<oauthVars, handlerVars, resolverVars, bootVars, authVars>>

\* checkLockfile settles; whatever it returns, createOAuthCallbackServer({port: 0})
\* is called next
HttpLockChecked(alive, deleteOk) ==
  LET c == checkLockfile(lockfile, now, alive,
                         probe(creation.listening, sessions, res, lockfile.port), deleteOk)
  IN /\ http.pc = "checkLockfile"
     /\ lockCheck' = c
     /\ lockfile' = c.after
     /\ IF c.status = "threw"
        THEN /\ httpEnd(FALSE)
             /\ http' = [http EXCEPT !.pc = "idle", !.outcome = "rejected"]
             /\ creation' = creation
        ELSE /\ http' = [http EXCEPT !.pc = "createServer"]
             /\ creation' = [NoCreation EXCEPT !.pc = "listen", !.port = AutoPort,
                                               !.promise = "pending"]
             /\ UNCHANGED <<clients, conn>>
     /\ UNCHANGED <<caps, changes, calls, envConfigUrl, fetcher, scope, cachedConfig, proc>>
     /\ provider' = provider
     /\ UNCHANGED <<oauthVars, handlerVars, resolverVars, bootVars, authVars>>

\* the callback server's promise has settled: oauthServers.set, generateSession, createLockfile
\* (writeOk is whether the file gets written), the provider with its session
\* set, and the first connect attempt is started
HttpServerCreated(sessionId, state, writeOk) ==
  /\ http.pc = "createServer"
  /\ creation.promise \in {"resolved", "rejected"}
  /\ sessionId \notin DOMAIN sessions
  /\ IF creation.promise = "rejected"
     THEN /\ httpEnd(FALSE)
          /\ http' = [http EXCEPT !.pc = "idle", !.outcome = "rejected"]
          /\ UNCHANGED <<sessions, lockfile, provider, oauthServers>>
     ELSE /\ oauthServers' = registerOAuthServer(oauthServers, http.name)
          /\ sessions' = generateSession(sessions, sessionId, state, now)
          /\ IF writeOk
             THEN /\ lockfile' = LockfileData("own", creation.value, now)
                  /\ provider' = setSession(newProvider("connect", TRUE),
                                            OAuthSession(sessionId, state))
                  /\ http' = [http EXCEPT !.pc = "attempt1", !.session = sessionId,
                                          !.state = state, !.attempts = 1]
                  /\ UNCHANGED <<clients, conn>>
             ELSE /\ lockfile' = lockfile
                  /\ provider' = provider
                  /\ httpEnd(FALSE)
                  /\ http' = [http EXCEPT !.pc = "idle", !.session = sessionId,
                                          !.state = state, !.outcome = "rejected"]
  /\ UNCHANGED <<caps, changes, calls, envConfigUrl, fetcher, scope, cachedConfig, proc>>
  /\ UNCHANGED <<creation, lockCheck>>
  /\ UNCHANGED <<res, waits, now, lastReq, lastStatus, reqSeq>>
  /\ UNCHANGED <<handlerVars, resolverVars, bootVars, credentials>>

\* the first client.connect(transport) settles; an unauthorized transport has
\* run the authorization up to redirectToAuthorization before it throws
HttpFirstAttempt(result) ==
  /\ http.pc = "attempt1"
  /\ provider' = IF result = "unauthorized" THEN redirectToAuthorization(provider, <<>>)
                 ELSE provider
  /\ IF result = "ok"
     THEN /\ httpEnd(TRUE)
          /\ http' = [http EXCEPT !.pc = "idle", !.first = result, !.outcome = "resolved"]
          /\ waits' = waits
     ELSE IF onConnectError(result, TRUE) = "wait"
       THEN /\ http' = [http EXCEPT !.pc = "waiting", !.first = result, !.wait = Len(waits) + 1]
            /\ waits' = Append(waits, waitForAuthCode(sessions, http.session, now))
            /\ UNCHANGED <<clients, conn>>
     ELSE /\ httpEnd(FALSE)
          /\ http' = [http EXCEPT !.pc = "idle", !.first = result, !.outcome = "rejected"]
          /\ waits' = waits
  /\ UNCHANGED <<caps, changes, calls, envConfigUrl, fetcher, scope, cachedConfig, proc>>
  /\ UNCHANGED <<creation, lockfile, lockCheck>>
  /\ UNCHANGED <<sessions, res, now, lastReq, lastStatus, reqSeq>>
  /\ UNCHANGED <<handlerVars, resolverVars, bootVars, authVars>>

\* waitForAuthCode has settled: the second client.connect(transport) is
\* started, or the rejection leaves connectHttpClient
HttpWaitSettled ==
  /\ http.pc = "waiting"
  /\ waits[http.wait].status # "pending"
  /\ IF waits[http.wait].status = "resolved"
     THEN /\ http' = [http EXCEPT !.pc = "attempt2", !.waited = "resolved", !.attempts = @ + 1]
          /\ UNCHANGED <<clients, conn>>
     ELSE /\ httpEnd(FALSE)
          /\ http' = [http EXCEPT !.pc = "idle", !.waited = "rejected", !.outcome = "rejected"]
  /\ UNCHANGED <<caps, changes, calls, envConfigUrl, fetcher, scope, cachedConfig, proc>>
  /\ UNCHANGED <<creation, lockfile, lockCheck, provider>>
  /\ UNCHANGED <<oauthVars, handlerVars, resolverVars, bootVars, authVars>>

\* the second client.connect(transport) settles
HttpSecondAttempt(result) ==
  /\ http.pc = "attempt2"
  /\ provider' = IF result = "unauthorized" THEN redirectToAuthorization(provider, <<>>)
                 ELSE provider
  /\ httpEnd(result = "ok")
  /\ http' = [http EXCEPT !.pc = "idle", !.second = result,
                          !.outcome = IF result = "ok" THEN "resolved" ELSE "rejected"]
  /\ UNCHANGED <<caps, changes, calls, envConfigUrl, fetcher, scope, cachedConfig, proc>>
  /\ UNCHANGED <<creation, lockfile, lockCheck>>
  /\ UNCHANGED <<oauthVars, handlerVars, resolverVars, bootVars, authVars>>

\* the caller of connectToServer has taken its result and may call again
HttpReturn ==
  /\ http.pc = "idle"
  /\ http.outcome # "none"
  /\ http' = NoHttp
  /\ UNCHANGED <<creation, lockfile, lockCheck, provider>>
  /\ UNCHANGED <<oauthVars, mgrVars, handlerVars, resolverVars, bootVars, authVars>>

(***************************************************************************)
(* The credentials file and the provider's save operations                 *)
(***************************************************************************)
\* the entry of one project in ~/.agiflow/mcp.credentials.json: for each
\* backend the fields that are stored under servers[name]; the save calls in
\* progress, one per backend, each with the credentials object it has read;
\* and the saves that have returned
Backends == {"a", "b"}
Fields == {"clientInfo", "codeVerifier", "tokens"}
NoServers == [b \in Backends |-> {}]
IdleSave == [pc |-> "idle", field |-> "", credentials |-> NoServers]
NoCredentials ==
  [file |-> NoServers, save |-> [b \in Backends |-> IdleSave], saved |-> {}]

\* getCredentials(projectPath): the project's entry as the file has it now
\* (null, for which the caller takes a fresh object, is the entry without servers)
getCredentials(file) == file

\* credentials.servers[serverName].<field> = value, on the object that was read
withField(creds, serverName, field) ==
  [creds EXCEPT ![serverName] = @ \cup {field}]

\* saveCredentials(projectPath, credentials) from its writeFile on:
\* store[projectPath] = credentials replaces the project's entry
saveCredentials(file, creds) == creds

\* saveClientInformation / saveCodeVerifier / saveTokens of backend b's
\* provider, up to the await of getCredentials
SaveCall(b, field) ==
  /\ credentials.save[b].pc = "idle"
  /\ <<b, field>> \notin credentials.saved
  /\ credentials' = [credentials EXCEPT !.save[b] = [IdleSave EXCEPT !.pc = "get", !.field = field]]
  /\ UNCHANGED oauthServers
  /\ UNCHANGED <<oauthVars, mgrVars, handlerVars, resolverVars, bootVars, flowVars>>

\* getCredentials has read the file: the field is set on the object read and
\* saveCredentials is called, which awaits ensureCredentialsDirectory
SaveRead(b) ==
  /\ credentials.save[b].pc = "get"
  /\ credentials' = [credentials EXCEPT
       !.save[b].pc = "load",
       !.save[b].credentials = withField(getCredentials(credentials.file), b,
                                         credentials.save[b].field)]
  /\ UNCHANGED oauthServers
  /\ UNCHANGED <<oauthVars, mgrVars, handlerVars, resolverVars, bootVars, flowVars>>

\* saveCredentials has loaded the store; store[projectPath] = credentials and
\* the await of writeFile follow
SaveLoad(b) ==
  /\ credentials.save[b].pc = "load"
  /\ credentials' = [credentials EXCEPT !.save[b].pc = "write"]
  /\ UNCHANGED oauthServers
  /\ UNCHANGED <<oauthVars, mgrVars, handlerVars, resolverVars, bootVars, flowVars>>

\* writeFile has written the store, and the save returns
SaveWrite(b) ==
  /\ credentials.save[b].pc = "write"
  /\ credentials' = [credentials EXCEPT
       !.file = saveCredentials(credentials.file, credentials.save[b].credentials),
       !.save[b] = IdleSave,
       !.saved = @ \cup {<<b, credentials.save[b].field>>}]
  /\ UNCHANGED oauthServers
  /\ UNCHANGED <<oauthVars, mgrVars, handlerVars, resolverVars, bootVars, flowVars>>

(***************************************************************************)
(* Initial states and specifications                                       *)
(***************************************************************************)
Ident(n) == [i \in 1..n |-> i]

\* createServer's start-up: the servers of cfg that connected, in map order
RECURSIVE startup(_)
startup(cfg) ==
  IF cfg = <<>> THEN [clients |-> <<>>, conn |-> <<>>]
  ELSE LET before == startup(SubSeq(cfg, 1, Len(cfg) - 1))
           name == cfg[Len(cfg)]
           e == connectToServer_end(before.clients, newMcpClient(before.conn, name),
                                    name, Len(before.conn) + 1, TRUE)
       IN [clients |-> e.clients, conn |-> e.conn]

\* no manager activity at all
InitManagerIdle ==
  /\ clients = <<>>
  /\ conn = <<>>
  /\ caps = FixedCaps
  /\ changes = 0
  /\ calls = 0
  /\ envConfigUrl = NoUrl
  /\ fetcher = newConfigFetcher(orgUrl(Base, OrgId), FALSE, NoUrl, NoUrl)
  /\ scope = NoScope
  /\ cachedConfig = NoConfig
  /\ proc = [p \in Procs |-> IdleProc]

\* no request handled yet
NoList == [kind |-> "none", items |-> <<>>]
NoRoute == [kind |-> "none", id |-> <<>>, status |-> "none", server |-> <<>>, name |-> <<>>]
DefaultOptions == [useServerPrefix |-> TRUE, progressive |-> FALSE]
InitHandlersIdle ==
  /\ options = DefaultOptions
  /\ listed = NoList
  /\ routed = NoRoute
  /\ described = NoDescription
  /\ used = NoUse
  /\ called = NoCall

\* the entries a source can hold; every value names its source t
RawServers(t) ==
  {[command |-> Str(t)],
   [command |-> Str(t), args |-> Arr(<<"${HOME}", t>>), env |-> [S |-> t] @@ (t :> t),
    instruction |-> Str(t)],
   [command |-> Str(t), args |-> Arr(<<t>>), disabled |-> Bool(TRUE)],
   [url |-> Str(t), headers |-> [S |-> t] @@ (t :> t)],
   [url |-> Str(t), type |-> Str("sse"), disabled |-> Bool(FALSE)],
   [url |-> Str(t), disabled |-> Bool(TRUE)],
   [command |-> Str(t), url |-> Str(t)],
   [args |-> Arr(<<t>>)]}

ServerNames == {"a", "b"}
\* server a holds any entry, server b a full stdio entry, an http entry or a
\* disabled one
OtherServers(t) ==
  {e \in RawServers(t) : hasKey(e, "env") \/ hasKey(e, "headers")
                          \/ (hasKey(e, "args") /\ hasKey(e, "disabled"))}
RawConfigs(t) ==
  {Null} \cup {c \in UNION {[D -> RawServers(t)] : D \in SUBSET ServerNames} :
                 "b" \in DOMAIN c => c["b"] \in OtherServers(t)}

InitResolverIdle ==
  /\ fileSrc = Null
  /\ urlSrc = Null
  /\ resolver = newResolver(TRUE, FALSE, "", 0)
  /\ dateNow = 0
  /\ fetches = [p \in Fetchers |-> IdleFetch]
  /\ fetchSeq = 0
  /\ newest = 0 - 1

\* the server has been created
InitStarted == boot = Started

\* no callback server being created by a call, no lockfile, no connect under way
InitFlowIdle ==
  /\ creation = NoCreation
  /\ lockfile = NoLockfile
  /\ lockCheck = NoLockCheck
  /\ http = NoHttp
  /\ provider = NoProvider
  /\ credentials = NoCredentials
  /\ oauthServers = NoOAuthServers

\* a server with its backends connected, each listing one of the tool lists
InitDescribe ==
  /\ InitCallbackServer
  /\ \E cfg \in Configs : clients = startup(cfg).clients /\ conn = startup(cfg).conn
  /\ caps \in {[n \in Names |-> CapsOf(f[n], n)] : f \in [Names -> ToolLists]}
  /\ changes = 0
  /\ calls = 0
  /\ envConfigUrl = NoUrl
  /\ fetcher = newConfigFetcher(orgUrl(Base, OrgId), FALSE, NoUrl, NoUrl)
  /\ scope = NoScope
  /\ cachedConfig = NoConfig
  /\ proc = [p \in Procs |-> IdleProc]
  /\ InitHandlersIdle
  /\ InitResolverIdle
  /\ InitStarted
  /\ InitFlowIdle

InitOutsideOAuth == InitManagerIdle /\ InitHandlersIdle /\ InitResolverIdle /\ InitStarted /\ InitFlowIdle
InitOutsideManager == InitCallbackServer /\ InitHandlersIdle /\ InitResolverIdle /\ InitStarted /\ InitFlowIdle
InitOutsideResolver == InitCallbackServer /\ InitManagerIdle /\ InitHandlersIdle /\ InitStarted /\ InitFlowIdle

\* createServerWithReload is called: the services are constructed and the
\* first fetchConfiguration() is awaited
InitStartup ==
  /\ InitCallbackServer
  /\ InitManagerIdle
  /\ InitHandlersIdle
  /\ InitResolverIdle
  /\ InitFlowIdle
  /\ boot = Booting

\* one service over every pair of sources, every strategy and every choice of
\* configured sources
InitResolve ==
  /\ InitOutsideResolver
  /\ fileSrc \in RawConfigs("l")
  /\ urlSrc \in RawConfigs("r")
  /\ \E hasFile \in BOOLEAN, hasUrl \in BOOLEAN, st \in Strategies \cup {""} :
       /\ hasFile \/ hasUrl
       /\ resolver = newResolver(hasFile, hasUrl, st, CacheTtl)
  /\ dateNow = 0
  /\ fetches = [p \in Fetchers |-> IdleFetch]
  /\ fetchSeq = 0
  /\ newest = 0 - 1

CacheSources(t) == {Null, [a |-> [command |-> Str(t)]]}

\* a service with both sources whose callers overlap while time passes
InitCache ==
  /\ InitOutsideResolver
  /\ fileSrc \in CacheSources("l")
  /\ urlSrc \in CacheSources("r")
  /\ \E hasFile \in BOOLEAN : resolver = newResolver(hasFile, TRUE, "", CacheTtl)
  /\ dateNow = 0
  /\ fetches = [p \in Fetchers |-> IdleFetch]
  /\ fetchSeq = 0
  /\ newest = 0 - 1


\* the configurations the overlapping callers reload to
ManagerConfigs == {<<>>, <<"a">>}

\* after start-up with some configuration, every backend listing the same
InitManager ==
  /\ InitOutsideManager
  /\ \E cfg \in ManagerConfigs : clients = startup(cfg).clients /\ conn = startup(cfg).conn
  /\ caps = FixedCaps
  /\ changes = 0
  /\ calls = 0
  /\ envConfigUrl = NoUrl
  /\ fetcher = newConfigFetcher(orgUrl(Base, OrgId), FALSE, NoUrl, NoUrl)
  /\ scope = NoScope
  /\ cachedConfig = NoConfig
  /\ proc = [p \in Procs |-> IdleProc]

\* after start-up, both backends listing a tool t1 of their own
InitReload ==
  /\ InitOutsideManager
  /\ \E cfg \in Configs : clients = startup(cfg).clients /\ conn = startup(cfg).conn
  /\ caps = OwnCaps
  /\ changes = 0
  /\ calls = 0
  /\ envConfigUrl = NoUrl
  /\ fetcher = newConfigFetcher(orgUrl(Base, OrgId), FALSE, NoUrl, NoUrl)
  /\ scope = NoScope
  /\ cachedConfig = NoConfig
  /\ proc = [p \in Procs |-> IdleProc]

\* the endpoint options and environment a server may be constructed with
OptUrls == {NoUrl, Base, Base \o <<"api", "v1", "mcp-configs">>, orgUrl(Base, OrgId),
            taskUrl(Base, OrgId, "t0"), Base \o <<"api", "v1", "organizations", OrgId>>}
EnvUrls == {NoUrl, orgUrl(Base, OrgId), projectUrl(Base, OrgId, "p0")}
Ctxs == {NoCtx} \cup {Ctx(t, w, pr) : t \in {"", "t1"}, w \in {"", "w1"}, pr \in {"", "p1"}}

InitScope ==
  /\ InitOutsideManager
  /\ clients = <<>>
  /\ conn = <<>>
  /\ caps = FixedCaps
  /\ changes = 0
  /\ calls = 0
  /\ \E optUrl \in OptUrls, optFile \in BOOLEAN, e \in EnvUrls, proxy \in {NoUrl, Base} :
       /\ optUrl # NoUrl \/ optFile \/ e # NoUrl \/ proxy # NoUrl
       /\ envConfigUrl = e
       /\ fetcher = newConfigFetcher(optUrl, optFile, e, proxy)
  /\ scope = NoScope
  /\ cachedConfig = NoConfig
  /\ proc = [p \in Procs |-> IdleProc]

\* the proxy server started with one or two backends, all of them listing
\* one tool, one resource and one prompt of the same name
ProxyConfigs ==
  {<<>>} \cup {<<n>> : n \in NameStrings}
         \cup {<<n, <<"a">>>> : n \in NameStrings \ {<<"a">>}}
         \cup {<<<<"a">>, n>> : n \in NameStrings \ {<<"a">>}}

InitProxy ==
  /\ InitCallbackServer
  /\ \E cfg \in ProxyConfigs, k \in NameStrings :
       /\ clients = startup(cfg).clients
       /\ conn = startup(cfg).conn
       /\ caps = [n \in Range(cfg) |-> [kind \in KindSet |-> <<Item(k, "x")>>]]
  /\ changes = 0
  /\ calls = 0
  /\ envConfigUrl = NoUrl
  /\ fetcher = newConfigFetcher(orgUrl(Base, OrgId), FALSE, NoUrl, NoUrl)
  /\ scope = NoScope
  /\ cachedConfig = NoConfig
  /\ proc = [p \in Procs |-> IdleProc]
  /\ options \in [useServerPrefix : BOOLEAN, progressive : BOOLEAN]
  /\ listed = NoList
  /\ routed = NoRoute
  /\ described = NoDescription
  /\ used = NoUse
  /\ called = NoCall
  /\ InitResolverIdle
  /\ InitStarted
  /\ InitFlowIdle

\* the proxy server started with up to two of three backends, one of them
\* with a '/' in its name, each listing none, one or both of two tools
UseNames == {<<"a">>, <<"b">>, <<"a", "/">>}
UseTools == {<<"t">>, <<"u">>}
UseToolLists == {<<>>, <<Item(<<"t">>, "x")>>, <<Item(<<"t">>, "x"), Item(<<"u">>, "x")>>}
UseConfigs ==
  {<<>>} \cup {<<n>> : n \in UseNames}
         \cup ({<<n, k>> : n \in UseNames, k \in UseNames} \ {<<n, n>> : n \in UseNames})
\* at most one backend at fault during a request
Faults == {{}} \cup {{n} : n \in UseNames}

InitUse ==
  /\ InitCallbackServer
  /\ \E cfg \in UseConfigs :
       /\ clients = startup(cfg).clients
       /\ conn = startup(cfg).conn
       /\ caps \in {[n \in Range(cfg) |-> [tools |-> f[n], resources |-> <<>>, prompts |-> <<>>]] :
                      f \in [Range(cfg) -> UseToolLists]}
  /\ changes = 0
  /\ calls = 0
  /\ envConfigUrl = NoUrl
  /\ fetcher = newConfigFetcher(orgUrl(Base, OrgId), FALSE, NoUrl, NoUrl)
  /\ scope = NoScope
  /\ cachedConfig = NoConfig
  /\ proc = [p \in Procs |-> IdleProc]
  /\ options \in [useServerPrefix : BOOLEAN, progressive : BOOLEAN]
  /\ listed = NoList
  /\ routed = NoRoute
  /\ described = NoDescription
  /\ used = NoUse
  /\ called = NoCall
  /\ InitResolverIdle
  /\ InitStarted
  /\ InitFlowIdle


\* list requests, and requests for the identifiers the last listing showed
NextProxy ==
  \/ \E kind \in KindSet : ListHandler(kind)
  \/ \E i \in DOMAIN listed.items : RouteHandler(listed.kind, listed.items[i].id)
  \/ \E id \in {DescribeToolsName, UseToolName} : RouteHandler("tools", id)

\* every manager operation from any caller, overlapping at the awaits
NextManager ==
  \/ \E p \in Procs, name \in Names : ConnectCall(p, name)
  \/ \E p \in Procs, ok \in BOOLEAN : ConnectReturn(p, ok)
  \/ \E p \in Procs, name \in Names : DisconnectCall(p, name)
  \/ \E p \in Procs : DisconnectReturn(p, TRUE)
  \/ \E p \in Procs : DisconnectAllCall(p)
  \/ \E p \in Procs, c \in 1..(MaxConns + 1) : DisconnectAllClosed(p, c, TRUE)
  \/ \E p \in Procs : ReloadCall(p, NoCtx)
  \/ \E p \in Procs : ReloadBegin(p, TRUE)
  \/ \E p \in Procs : ReloadSnapshotOld(p, Ident(Len(proc[p].listing)), {})
  \/ \E p \in Procs, ok \in BOOLEAN, cfg \in ManagerConfigs : ReloadFetch(p, ok, cfg)
  \/ \E p \in Procs : ReloadRemoveEnd(p, TRUE)
  \/ \E p \in Procs, name \in Names : ReloadTaskDisconnected(p, name, TRUE)
  \/ \E p \in Procs, name \in Names : ReloadTaskConnected(p, name, TRUE)
  \/ \E p \in Procs : ReloadSnapshotNew(p, Ident(Len(proc[p].listing)), {})
  \/ \E p \in Procs : ReloadNotify(p, "none")
  \/ \E p \in Procs : ReloadCatch(p, TRUE)

\* one reload at a time, with every failure and every completion order
NextReload ==
  \/ ReloadCall(1, NoCtx)
  \/ \E logOk \in BOOLEAN : ReloadBegin(1, logOk)
  \/ \E order \in Perms(Len(proc[1].listing)), fails \in FailSets(proc[1].listing) :
        ReloadSnapshotOld(1, order, fails)
  \/ \E ok \in BOOLEAN, cfg \in Configs : ReloadFetch(1, ok, cfg)
  \/ \E ok \in BOOLEAN : ReloadRemoveEnd(1, ok)
  \/ \E name \in Names, ok \in BOOLEAN : ReloadTaskDisconnected(1, name, ok)
  \/ \E name \in Names, ok \in BOOLEAN : ReloadTaskConnected(1, name, ok)
  \/ \E order \in Perms(Len(proc[1].listing)), fails \in FailSets(proc[1].listing) :
        ReloadSnapshotNew(1, order, fails)
  \/ \E failAt \in Sends : ReloadNotify(1, failAt)
  \/ \E logOk \in BOOLEAN : ReloadCatch(1, logOk)
  \/ \E b \in Names, tools \in ToolLists : BackendChange(b, tools)

\* reloads with every context on servers constructed in every way
NextScope ==
  \/ \E ctx \in Ctxs : ReloadCall(1, ctx)
  \/ ReloadBegin(1, TRUE)
  \/ ReloadSnapshotOld(1, Ident(Len(proc[1].listing)), {})
  \/ \E ok \in BOOLEAN, cfg \in {<<>>, <<"a">>} : ReloadFetch(1, ok, cfg)
  \/ \E ok \in BOOLEAN : ReloadRemoveEnd(1, ok)
  \/ \E name \in Names, ok \in BOOLEAN : ReloadTaskDisconnected(1, name, ok)
  \/ \E name \in Names, ok \in BOOLEAN : ReloadTaskConnected(1, name, ok)
  \/ ReloadSnapshotNew(1, Ident(Len(proc[1].listing)), {})
  \/ ReloadNotify(1, "none")
  \/ ReloadCatch(1, TRUE)

\* one caller resolving the configuration
NextResolve ==
  \/ \E ctx \in {NoCtx, Ctx("", "", "")} : FetchCall(1, ctx)
  \/ FetchSettle(1)

\* overlapping callers, the clock, clearCache and changing sources
NextCache ==
  \/ \E p \in Fetchers, ctx \in {NoCtx, Ctx("", "", "")} : FetchCall(p, ctx)
  \/ \E p \in Fetchers : FetchSettle(p)
  \/ ClearCache
  \/ ClockAdvance
  \/ \E raw \in CacheSources("l") : SourceChange(TRUE, raw)
  \/ \E raw \in CacheSources("r") : SourceChange(FALSE, raw)

\* server creation with every outcome of the fetch, of the log and of each
\* connect, the connects settling in any order
NextStartup ==
  \/ \E ok \in BOOLEAN, cfg \in StartupConfigs, logOk \in BOOLEAN : StartupFetch(ok, cfg, logOk)
  \/ \E name \in StartupNames, ok \in BOOLEAN : StartupConnected(name, ok)

\* one describe_tools call (the tool keeps nothing between calls) with every
\* request, with and without a server name
NextDescribe ==
  /\ described = NoDescription
  /\ \E toolNames \in ToolRequests, serverName \in {""} \cup Names \cup {"c"},
        failing \in SUBSET Names :
       DescribeHandler(toolNames, serverName, failing)

\* one use_tool call, and one call-tool request made while the backends
\* behave as they did for it: for a tool by its own name and by its name
\* behind each backend's prefix
NextUse ==
  \/ /\ used = NoUse
     /\ \E toolName \in UseTools, toolArgs \in ArgValues,
           hint \in {{}} \cup {{n} : n \in UseNames}, failing \in Faults, rejecting \in Faults :
          UseToolHandler(toolName, toolArgs, hint, failing, rejecting)
  \/ /\ used # NoUse
     /\ called = NoCall
     /\ \E name \in UseTools \cup {prefixName(n, t) : n \in UseNames, t \in UseTools}
                             \cup {ReloadConfigToolName},
           args \in ArgValues :
          CallToolHandler(name, args, used.failing, used.rejecting)

\* createOAuthCallbackServer called with either kind of port, every outcome of
\* listening, and the created server at work
NextCreate ==
  \/ \E port \in Ports : CreateServer(port)
  \/ \E outcome \in ListenOutcomes : ListenSettles(outcome)
  \/ \E outcome \in ListenOutcomes : RetrySettles(outcome)
  \/ \E sid \in SessionIds : creation.promise = "resolved" /\ GenerateSession(sid, <<"a">>)
  \/ \E sid \in SessionIds, st \in StateValues, o \in Outcomes :
        creation.listening # {} /\ OAuthCallback(stateParam(sid, st), o[1], o[2])
  \/ \E sid \in SessionIds \cup {<<>>} : creation.listening # {} /\ WaitForAuth(sid, FALSE)

\* checkLockfile against every lockfile, with the owner's callback server
\* listening or not and its sessions
NextLockfile ==
  \/ CreateServer(AutoPort)
  \/ \E outcome \in ListenOutcomes : ListenSettles(outcome)
  \/ creation.promise = "resolved" /\ GenerateSession(<<"a">>, <<"a">>)
  \/ \E pid \in Pids, port \in {"p1", "p2"} : CreateLockfile(pid, port)
  \/ CorruptLockfile
  \/ Tick
  \/ \E alive \in BOOLEAN, deleteOk \in BOOLEAN : CheckLockfile(alive, deleteOk)

\* one connect of an http backend with every outcome of each step, the
\* callbacks of the authorization server, the sweep and the clock
NextHttpConnect ==
  \/ HttpConnectCall("a")
  \/ \E alive \in BOOLEAN, deleteOk \in BOOLEAN : HttpLockChecked(alive, deleteOk)
  \/ \E outcome \in ListenOutcomes : ListenSettles(outcome)
  \/ \E writeOk \in BOOLEAN : HttpServerCreated(<<"a">>, <<"a">>, writeOk)
  \/ \E result \in ConnectResults : HttpFirstAttempt(result)
  \/ \E sid \in SessionIds, st \in StateValues, o \in Outcomes :
        creation.listening # {} /\ OAuthCallback(stateParam(sid, st), o[1], o[2])
  \/ \E w \in WaitIds : CheckAuth(w)
  \/ \E w \in WaitIds : WaitTimeout(w)
  \/ Sweep
  \/ Tick
  \/ HttpWaitSettled
  \/ \E result \in ConnectResults : HttpSecondAttempt(result)
  \/ \E pid \in Pids : http.pc = "idle" /\ http.outcome = "none" /\ CreateLockfile(pid, "p2")
  \/ \E session \in {NoSession} \cup {OAuthSession(sid, st) : sid \in SessionIds, st \in StateValues},
        cb \in BOOLEAN, u \in UrlStates :
        http.pc = "idle" /\ http.outcome = "none" /\ ProviderRedirect(session, cb, u)

\* connects of an http backend, one after the other, with every outcome of
\* their steps, and disconnect calls at any time
NextOAuthServers ==
  \/ Len(conn) < MaxServers /\ HttpConnectCall("a")
  \/ HttpLockChecked(TRUE, TRUE)
  \/ \E outcome \in ListenOutcomes : ListenSettles(outcome)
  \/ \E sid \in SessionIds, writeOk \in BOOLEAN : HttpServerCreated(sid, <<"a">>, writeOk)
  \/ \E result \in ConnectResults : HttpFirstAttempt(result)
  \/ \E sid \in SessionIds, o \in Outcomes :
        http.pc = "waiting" /\ OAuthCallback(stateParam(sid, <<"a">>), o[1], o[2])
  \/ \E w \in 1..MaxServers : CheckAuth(w)
  \/ HttpWaitSettled
  \/ \E result \in ConnectResults : HttpSecondAttempt(result)
  \/ HttpReturn
  \/ DisconnectCall(1, "a")
  \/ \E ok \in BOOLEAN : DisconnectReturn(1, ok)
  \/ DisconnectAllCall(1)
  \/ \E c \in 1..MaxServers, ok \in BOOLEAN : DisconnectAllClosed(1, c, ok)

\* the saves of the backends of one batch, connecting concurrently
NextCredentials ==
  \/ \E b \in Backends, field \in Fields : SaveCall(b, field)
  \/ \E b \in Backends : SaveRead(b)
  \/ \E b \in Backends : SaveLoad(b)
  \/ \E b \in Backends : SaveWrite(b)

vars == <<oauthVars, mgrVars, handlerVars, resolverVars, bootVars, flowVars, authVars>>

InitOAuthOnly == InitCallbackServer /\ InitOutsideOAuth
SpecOAuth == InitOAuthOnly /\ [][NextOAuth]_vars

SpecOAuthTimed == InitOAuthOnly /\ [][NextOAuthTimed]_vars
\* the 30 second timer of a parked request fires unless the request is
\* answered or closed before
SpecWaitForAuth ==
  InitOAuthOnly /\ [][NextWaitForAuth]_vars /\ \A r \in ResIds : WF_vars(PollTimeout(r))
\* time passes and the authTimeoutMs timer of a pending wait fires when due
SpecWaitForAuthCode ==
  InitOAuthOnly /\ [][NextWaitForAuthCode]_vars
    /\ WF_vars(Tick) /\ \A w \in WaitIds : WF_vars(WaitTimeout(w))
SpecManager == InitManager /\ [][NextManager]_vars
SpecReload == InitReload /\ [][NextReload]_vars
SpecScope == InitScope /\ [][NextScope]_vars
SpecProxy == InitProxy /\ [][NextProxy]_vars
SpecResolve == InitResolve /\ [][NextResolve]_vars
SpecCache == InitCache /\ [][NextCache]_vars
SpecStartup == InitStartup /\ [][NextStartup]_vars
SpecDescribe == InitDescribe /\ [][NextDescribe]_vars
SpecUse == InitUse /\ [][NextUse]_vars
SpecCreate == InitOAuthOnly /\ [][NextCreate]_vars
SpecLockfile == InitOAuthOnly /\ [][NextLockfile]_vars
SpecHttpConnect == InitOAuthOnly /\ [][NextHttpConnect]_vars
SpecCredentials == InitOAuthOnly /\ [][NextCredentials]_vars
SpecOAuthServers == InitOAuthOnly /\ [][NextOAuthServers]_vars

(***************************************************************************)
(* Claims about the OAuth callback server                                  *)
(***************************************************************************)
CallbackStep == reqSeq' # reqSeq /\ lastReq'.path = "callback"

\* C2: for every held session S, a callback whose state parameter is
\* S.sessionId ':' v with v different from S.state is answered 403, leaves
\* S's code and error as they were and releases no waiter parked on S,
\* whatever code or error it carries.
C2_MismatchIs403 ==
  [][(CallbackStep /\ lastReq'.session # <<>> /\ ~lastReq'.exact)
       => (lastStatus' = 403 /\ sessions' = sessions /\ res' = res)]_vars

\* C3: a callback records a code or an error only if its state parameter is,
\* character for character, sessionId:state of a held session; every other
\* state parameter is rejected and records nothing.
C3_AcceptedOnlyIfExact ==
  [][(CallbackStep /\ ~lastReq'.exact)
       => (lastStatus' \in {400, 403} /\ sessions' = sessions /\ res' = res)]_vars

\* C4: a callback for session A leaves every other held session B as it was:
\* B's code, error and waiting clients are unchanged, no response parked on B
\* is answered, and waitForAuthCode(B)'s check gives what it gave before.
C4_SessionIsolation ==
  [][CallbackStep =>
       \A B \in (DOMAIN sessions) \ {lastReq'.session} :
         /\ B \in DOMAIN sessions'
         /\ sessions'[B] = sessions[B]
         /\ \A r \in Range(sessions[B].waitingClients) : res'[r] = res[r]
         /\ checkAuth(sessions', B) = checkAuth(sessions, B)]_vars

\* a callback was just accepted for A and released A's parked waiter, while
\* another session B still has an open parked waiter and is still pending
C4_Witness ==
  /\ lastReq.path = "callback"
  /\ lastStatus = 200
  /\ lastReq.session \in DOMAIN sessions
  /\ sessions[lastReq.session].authCode # ""
  /\ \E r \in DOMAIN res : res[r] = 200
  /\ \E B \in (DOMAIN sessions) \ {lastReq.session} :
        /\ \E r \in Range(sessions[B].waitingClients) : res[r] = Open
        /\ checkAuth(sessions, B).status = "pending"

(***************************************************************************)
(* Claims about the connection manager and reload                          *)
(***************************************************************************)
\* C1: whatever way connect, disconnect, disconnectAll and reload calls
\* overlap, a backend name has at most one live connection (established and
\* not closed).
C1_AtMostOneLive == \A n \in Names : Cardinality(live(conn, n)) <= 1

ReloadDone(p) == proc[p].op = "reload" /\ proc[p].pc = "idle"
ReloadResolved(p) == ReloadDone(p) /\ proc[p].outcome = "resolved"

\* C5: a reload never rejects, whichever fetch, disconnect, connect, listing
\* or send fails.
C5_ReloadNeverRejects == \A p \in Procs : ReloadDone(p) => proc[p].outcome # "rejected"

NoDuplicates(seq) == \A i, j \in DOMAIN seq : seq[i] = seq[j] => i = j

\* C6: when the configuration was re-resolved, connected and failed
\* partition the names of the new configuration and success is true exactly
\* when failed is empty.
C6_ConnectedFailedPartition ==
  \A p \in Procs : (ReloadResolved(p) /\ proc[p].fetched) =>
    LET r == proc[p].result IN
      /\ Range(r.connected) \cup Range(r.failed) = Range(proc[p].newConfig)
      /\ Range(r.connected) \cap Range(r.failed) = {}
      /\ NoDuplicates(r.connected) /\ NoDuplicates(r.failed)
      /\ r.success <=> (r.failed = <<>>)

\* C7: after a reload whose fetch succeeded the live connections are those
\* of result.connected, each one created during this reload.
C7_LiveIsConnected ==
  \A p \in Procs : (ReloadResolved(p) /\ proc[p].fetched) =>
    /\ {n \in Names : live(conn, n) # {}} = Range(proc[p].result.connected)
    /\ \A n \in Names : \A c \in live(conn, n) : c >= proc[p].firstConn

\* C8: a reload with the same configuration and the same lists from every
\* backend before and after sends no list-changed notification, in whatever
\* order listings and connection attempts complete.
C8_IdenticalReloadIsSilent ==
  \A p \in Procs :
    (/\ ReloadResolved(p) /\ proc[p].result.message = "complete"
     /\ proc[p].oldNames = Range(proc[p].newConfig)
     /\ proc[p].failed = <<>>
     /\ proc[p].oldLists = proc[p].newLists)
    => proc[p].sent = <<>>

\* the collection of a kind aggregated over the backends, as a bag
bagOf(arr) == [x \in Range(arr) |-> Cardinality({i \in DOMAIN arr : arr[i] = x})]

\* C9: a reload sends the list-changed notification of a kind exactly when
\* the aggregated collection of that kind differs between the two
\* snapshots, and at most once.
C9_NotifiedIffCollectionDiffers ==
  \A p \in Procs : (ReloadResolved(p) /\ proc[p].result.message = "complete") =>
    /\ NoDuplicates(proc[p].sent)
    /\ \A k \in KindSet :
         (k \in Range(proc[p].sent)) <=> (bagOf(proc[p].old[k]) # bagOf(proc[p].new[k]))

scopeUrl(f, sc) ==
  IF sc.kind = "task" THEN taskUrl(f.baseUrl, f.organizationId, sc.id)
  ELSE projectUrl(f.baseUrl, f.organizationId, sc.id)

\* the step in which reload p calls fetchConfiguration and requests a URL
FetchStart(p) == proc[p].pc = "snapOld" /\ proc'[p].pc = "fetch" /\ proc'[p].url # NoUrl

constructedEndpoint ==
  IF endsWith(fetcher.configUrl, "mcp-configs") THEN fetcher.configUrl
  ELSE orgUrl(fetcher.baseUrl, fetcher.organizationId)

shownId(kind, b, name) == IF kind = "resources" THEN prefixUri(b, name) ELSE prefixName(b, name)

\* C11: with prefixing on, what a connected backend b lists is shown as
\* b/name (b://uri for a resource), and a request carrying that identifier
\* is sent to b with the original name or uri.
C11_PrefixRoundTrip ==
  options.useServerPrefix =>
    /\ \A i \in DOMAIN listed.items :
         listed.items[i].server # <<>> =>
           listed.items[i].id = shownId(listed.kind, listed.items[i].server, listed.items[i].name)
    /\ routed.kind \in KindSet =>
       \A i \in DOMAIN clients : \A k \in Range(keysOf(conn, caps, clients[i], routed.kind)) :
         routed.id = shownId(routed.kind, clients[i].name, k)
           => (routed.status = "sent" /\ routed.server = clients[i].name /\ routed.name = k)

\* the step in which caller p calls connectToServer(name, config)
ConnectCalled(p) == calls' # calls /\ proc'[p].id = calls' /\ proc'[p].op = "connect"

\* C12: connectToServer on a name that has a live connection fails at once,
\* creates nothing and leaves the connections and the map as they are.
C12_ConnectLiveNameRejected ==
  [][\A p \in Procs :
       (ConnectCalled(p) /\ live(conn, proc'[p].name) # {})
         => (proc'[p].outcome = "rejected" /\ conn' = conn /\ clients' = clients)]_vars

(***************************************************************************)
(* Claims about configuration resolution                                   *)
(***************************************************************************)
\* the configurations the sources hold, as loadFromFile and loadFromUrl give them
localServers == loadSource(fileSrc).config
remoteServers == loadSource(urlSrc).config

\* caller p's fetch resolved the two sources of a service that has both
Merged(p) ==
  /\ fetches[p].outcome = "resolved"
  /\ resolver.configFilePath /\ resolver.configUrl

\* C13: under local-priority, which is the default, the resolved names are
\* the union of the local and the remote names, a name both sources have maps
\* to the whole local entry and any other name to its only entry;
\* remote-priority is the same with the sources exchanged, and
\* merge(A, B, local-priority) = merge(B, A, remote-priority).
C13_PriorityMerge ==
  /\ newResolver(TRUE, TRUE, "", CacheTtl).mergeStrategy = "local-priority"
  /\ \A p \in Fetchers :
       (Merged(p) /\ resolver.mergeStrategy \in {"local-priority", "remote-priority"}) =>
         LET localWins == resolver.mergeStrategy = "local-priority"
             winner == IF localWins THEN localServers ELSE remoteServers
             other == IF localWins THEN remoteServers ELSE localServers
             c == fetches[p].config
         IN /\ DOMAIN c = (DOMAIN localServers) \cup (DOMAIN remoteServers)
            /\ \A n \in DOMAIN c : c[n] = IF n \in DOMAIN winner THEN winner[n] ELSE other[n]
            /\ mergeConfigurations("local-priority", localServers, remoteServers)
                 = mergeConfigurations("remote-priority", remoteServers, localServers)

\* a default-strategy fetch merged a name both sources have with a name only
\* the remote source has
C13_Witness ==
  \E p \in Fetchers :
    /\ Merged(p)
    /\ resolver.mergeStrategy = "local-priority"
    /\ "a" \in (DOMAIN localServers) \cap (DOMAIN remoteServers)
    /\ "b" \in (DOMAIN remoteServers) \ (DOMAIN localServers)
    /\ fetches[p].config["a"] = localServers["a"]
    /\ fetches[p].config["b"] = remoteServers["b"]

\* the entry's connection field k has a value
defined(e, k) == hasKey(e.config, k) /\ e.config[k] # Undefined
\* m is the key-wise union of the maps the two entries have under k, the
\* local value on a shared key
keywiseUnion(m, L, R, k) ==
  LET l == IF defined(L, k) THEN L.config[k] ELSE EmptyObject
      r == IF defined(R, k) THEN R.config[k] ELSE EmptyObject
  IN /\ DOMAIN m = (DOMAIN l) \cup (DOMAIN r)
     /\ \A j \in DOMAIN m : m[j] = IF j \in DOMAIN l THEN l[j] ELSE r[j]

\* C14: under merge-deep, for a name both sources have, a connection field
\* that one source defines keeps that source's value, a field both define
\* takes the local value, and env and headers are the key-wise union of both
\* maps, the local value winning on a shared key.
C14_MergeDeepFieldwise ==
  \A p \in Fetchers :
    (Merged(p) /\ resolver.mergeStrategy = "merge-deep") =>
      \A n \in (DOMAIN localServers) \cap (DOMAIN remoteServers) :
        LET L == localServers[n]
            R == remoteServers[n]
            M == fetches[p].config[n]
        IN /\ \A k \in {"command", "args", "url"} :
                /\ defined(L, k) => (defined(M, k) /\ M.config[k] = L.config[k])
                /\ (~defined(L, k) /\ defined(R, k)) => (defined(M, k) /\ M.config[k] = R.config[k])
           /\ \A k \in {"env", "headers"} :
                (defined(L, k) \/ defined(R, k))
                  => (defined(M, k) /\ keywiseUnion(M.config[k], L, R, k))

StdioFields == {"command", "args", "env"}
HttpFields == {"url", "headers"}

\* C15: in every resolved configuration each entry is named by its key, so
\* names are unique, and its connection parameters are of the variant its
\* transport names: command/args/env and no url/headers for stdio,
\* url/headers and no command/args/env for http and sse.
C15_NamesUniqueVariantMatches ==
  \A p \in Fetchers :
    fetches[p].outcome = "resolved" =>
      \A n \in DOMAIN fetches[p].config :
        LET e == fetches[p].config[n]
        IN /\ e.name = Str(n)
           /\ e.transport \in {Str("stdio"), Str("http"), Str("sse")}
           /\ e.transport = Str("stdio") =>
                (defined(e, "command") /\ \A k \in HttpFields : ~defined(e, k))
           /\ e.transport # Str("stdio") =>
                (defined(e, "url") /\ \A k \in StdioFields : ~defined(e, k))

\* the entry e carries a value of the source whose values are all t
mentions(e, t) ==
  \/ e.instruction = Str(t)
  \/ \E k \in {"command", "url"} : defined(e, k) /\ e.config[k] = Str(t)
  \/ defined(e, "args") /\ t \in Range(e.config.args.arr)
  \/ \E k \in {"env", "headers"} : defined(e, k) /\ t \in DOMAIN e.config[k]

\* the source src has server n flagged disabled
flaggedDisabled(src, n) ==
  src # Null /\ n \in DOMAIN src /\ prop(src[n], "disabled") = Bool(TRUE)

\* C16: whatever the strategy and the sources, an entry that its source
\* flags disabled is not in the resolved configuration: its name is absent or
\* stands for the other source's entry alone.
C16_DisabledNeverResolved ==
  \A p \in Fetchers :
    fetches[p].outcome = "resolved" =>
      \A n \in ServerNames :
        /\ flaggedDisabled(fileSrc, n) =>
             (n \notin DOMAIN fetches[p].config \/ ~mentions(fetches[p].config[n], "l"))
        /\ flaggedDisabled(urlSrc, n) =>
             (n \notin DOMAIN fetches[p].config \/ ~mentions(fetches[p].config[n], "r"))

\* both sources were merged: a is disabled in the file and enabled at the
\* URL, b is disabled in both
C16_Witness ==
  \E p \in Fetchers :
    /\ Merged(p)
    /\ fetches[p].contacted
    /\ flaggedDisabled(fileSrc, "a") /\ ~flaggedDisabled(urlSrc, "a")
    /\ flaggedDisabled(fileSrc, "b") /\ flaggedDisabled(urlSrc, "b")
    /\ DOMAIN fetches[p].config = {"a"}
    /\ mentions(fetches[p].config["a"], "r")

\* the step in which caller p calls fetchConfiguration, and the one in which
\* its loads settle
FetchCalled(p) == fetchSeq' # fetchSeq /\ fetches'[p].id = fetchSeq'
FetchSettled(p) == fetches[p].pc = "loading" /\ fetches'[p].pc = "done"

\* C17: a fetch without context that succeeds is stored; a later fetch
\* without context made less than the TTL after a stored fetch returns the
\* stored configuration without contacting a source (clearCache discards what
\* is stored); a fetch with a context always contacts the sources and leaves
\* the stored configuration and its timestamp as they were.
C17_CachedForTtl ==
  [][\A p \in Fetchers :
       /\ (FetchSettled(p) /\ ~fetches[p].ctx.given /\ fetches'[p].outcome = "resolved")
            => resolver'.cachedConfig = fetches'[p].config
       /\ (FetchCalled(p) /\ ~fetches'[p].ctx.given
              /\ newest >= 0 /\ dateNow - newest < resolver.cacheTtlMs)
            => /\ fetches'[p].outcome = "resolved"
               /\ ~fetches'[p].contacted
               /\ fetches'[p].config = resolver.cachedConfig
       /\ (FetchCalled(p) /\ fetches'[p].ctx.given) => fetches'[p].contacted
       /\ (FetchSettled(p) /\ fetches[p].ctx.given) => resolver' = resolver]_vars

\* a configured source that cannot be read, and one whose payload is outside
\* the schema
unresolvable(configured, src) == configured /\ src = Null
violatesSchema(configured, src) == configured /\ src # Null /\ ~parseMcpConfig(src).ok

\* C19: a fetch that contacts the sources fails only when no configured
\* source can be read or a payload violates the schema; with a file and a URL
\* configured of which exactly one loads, the other being unreadable, the
\* fetch succeeds with the servers of the one that loaded.
C19_FailsOnlyWithoutSource ==
  \A p \in Fetchers :
    (fetches[p].pc = "done" /\ fetches[p].contacted) =>
      LET hasFile == resolver.configFilePath
          hasUrl == resolver.configUrl
      IN /\ fetches[p].outcome = "rejected" =>
              \/ violatesSchema(hasFile, fileSrc) \/ violatesSchema(hasUrl, urlSrc)
              \/ /\ hasFile => fileSrc = Null
                 /\ hasUrl => urlSrc = Null
         /\ (hasFile /\ hasUrl /\ unresolvable(hasFile, fileSrc) /\ loadSource(urlSrc).ok)
              => (fetches[p].outcome = "resolved" /\ fetches[p].config = remoteServers)
         /\ (hasFile /\ hasUrl /\ unresolvable(hasUrl, urlSrc) /\ loadSource(fileSrc).ok)
              => (fetches[p].outcome = "resolved" /\ fetches[p].config = localServers)

(***************************************************************************)
(* Claims about server creation                                            *)
(***************************************************************************)
\* C18: server creation completes whatever fails: no failure escapes the
\* start-up, every connection task can settle, and the created server has no
\* backend connection when the fetch failed and otherwise exactly the
\* backends whose connect succeeded.
C18_StartupSurvivesFailures ==
  /\ boot.pc # "crashed"
  /\ boot.pc = "connecting" => boot.pending # {}
  /\ boot.pc = "started" =>
       /\ ~boot.fetchOk => (clients = <<>> /\ conn = <<>>)
       /\ boot.fetchOk =>
            /\ {n \in StartupNames : mapHas(clients, n)} = boot.succeeded
            /\ \A n \in StartupNames :
                 Cardinality(live(conn, n)) = IF n \in boot.succeeded THEN 1 ELSE 0
            /\ boot.succeeded \subseteq Range(boot.config)

\* a server was created after the connect of a succeeded and the one of b
\* failed
C18_Witness ==
  /\ boot.pc = "started"
  /\ boot.fetchOk
  /\ {"a", "b"} \subseteq Range(boot.config)
  /\ boot.succeeded = {"a"}
  /\ live(conn, "b") = {}

(***************************************************************************)
(* Claims about describe_tools                                             *)
(***************************************************************************)
\* the connected backends whose listing, in the described call, has tool x
listedBy(x) ==
  {clients[i].name : i \in {j \in DOMAIN clients :
      LET l == listToolsOf(conn, caps, described.failing, clients[j])
      IN ~l.threw /\ x \in Range(l.names)}}

\* C20: without a server name every requested name is in exactly one of
\* tools, notFound and ambiguous (the answer that none was found reports all
\* of them not found): in tools when exactly one connected backend lists it,
\* in notFound when none does, in ambiguous with all the backends listing it
\* when several do.  With a server name b, a name b lists is resolved to b
\* whoever else lists it.
C20_DescribePartition ==
  /\ (described.status \in {"ok", "none found"} /\ described.serverName = "") =>
       \A i \in DOMAIN described.toolNames :
         LET x == described.toolNames[i]
             L == listedBy(x)
             inTools == \E j \in DOMAIN described.tools : described.tools[j].name = x
             inNotFound == x \in Range(described.notFound) \/ described.status = "none found"
             inAmbiguous == \E j \in DOMAIN described.ambiguous :
                               described.ambiguous[j].toolName = x
         IN /\ Cardinality({k \in {"tools", "notFound", "ambiguous"} :
                              \/ k = "tools" /\ inTools
                              \/ k = "notFound" /\ inNotFound
                              \/ k = "ambiguous" /\ inAmbiguous}) = 1
            /\ Cardinality(L) = 1 =>
                 \E j \in DOMAIN described.tools :
                   described.tools[j].name = x /\ {described.tools[j].server} = L
            /\ Cardinality(L) = 0 => inNotFound
            /\ Cardinality(L) >= 2 =>
                 \E j \in DOMAIN described.ambiguous :
                   /\ described.ambiguous[j].toolName = x
                   /\ Range(described.ambiguous[j].servers) = L
  /\ (described.status \in {"ok", "none found"} /\ described.serverName # "") =>
       \A i \in DOMAIN described.toolNames :
         described.serverName \in listedBy(described.toolNames[i]) =>
           \E j \in DOMAIN described.tools :
             described.tools[j] = [server |-> described.serverName,
                                   name |-> described.toolNames[i]]

\* the backends the described call searched: the named one, or all
searched ==
  IF described.serverName = "" THEN {clients[i].name : i \in DOMAIN clients}
  ELSE {described.serverName}
isErrorResult == described.status \in {"no names", "server not found", "error", "none found"}

\* C21: describe_tools answers with an error result exactly when no requested
\* name is listed by a searched backend; otherwise, also when the listing of
\* a backend fails, it answers with the tools found and the notFound and
\* ambiguous lists, which between them hold every requested name.
C21_ErrorOnlyWhenNothingFound ==
  described.status # "none" =>
    /\ isErrorResult <=>
         (\A i \in DOMAIN described.toolNames :
            listedBy(described.toolNames[i]) \cap searched = {})
    /\ ~isErrorResult =>
         /\ described.status = "ok"
         /\ \A i \in DOMAIN described.toolNames :
              LET x == described.toolNames[i]
              IN IF listedBy(x) \cap searched = {}
                 THEN x \in Range(described.notFound)
                 ELSE \/ \E j \in DOMAIN described.tools : described.tools[j].name = x
                      \/ \E j \in DOMAIN described.ambiguous : described.ambiguous[j].toolName = x

\* the listing of one backend failed and the answer still has a tool found on
\* the other and a name not found
C21_Witness ==
  /\ described.status = "ok"
  /\ described.serverName = ""
  /\ \E i \in DOMAIN clients : clients[i].name \in described.failing
  /\ described.tools # <<>>
  /\ described.notFound # <<>>

(***************************************************************************)
(* Claims about use_tool                                                   *)
(***************************************************************************)
\* the connected backends whose listing, during the last use_tool call, has the tool
listing(toolName) ==
  {clients[i].name : i \in {j \in DOMAIN clients :
      LET l == listToolsOf(conn, caps, used.failing, clients[j])
      IN ~l.threw /\ toolName \in Range(l.names)}}
usedSearch == IF used.hint = {} THEN {clients[i].name : i \in DOMAIN clients} ELSE used.hint

\* C22: use_tool passes a call to a backend only when exactly one searched
\* backend lists the tool, and then to that backend (without a server name the
\* connected backends are searched, with one the named backend); when none or
\* several of them list it the reply is an error result and no backend
\* receives a call.
C22_ForwardsOnlyToTheListingBackend ==
  used.status # "none" =>
    LET found == listing(used.toolName) \cap usedSearch
    IN /\ \A c \in used.received : found = {c.server}
       /\ Cardinality(found) # 1 => (used.received = {} /\ used.reply = errorResult)

\* a server name given with the call, the named backend connected and not
\* listing the tool
C22_Counterexample ==
  /\ used.status = "sent"
  /\ used.hint # {}
  /\ listing(used.toolName) \cap used.hint = {}
  /\ used.received # {}

\* the last use_tool call and the last call-tool request are the pair of
\* calls for a tool listed by backend z alone: use_tool without a server name,
\* the request for z's prefixed name with the same arguments
samePair(z) ==
  /\ used.status # "none"
  /\ used.hint = {}
  /\ used.toolArgs # "undefined"
  /\ listing(used.toolName) = {z}
  /\ options.useServerPrefix
  /\ called.status # "none"
  /\ called.toolName = prefixName(z, used.toolName)
  /\ called.toolArgs = used.toolArgs

\* C23: for a tool listed by backend z alone, use_tool without a server name
\* makes z receive the same tool name and arguments, and gives the client the
\* same reply, as a call-tool request for z's prefixed name of the tool with
\* the same arguments when prefixing is enabled.
C23_UseToolAsPrefixedCall ==
  \A z \in {clients[i].name : i \in DOMAIN clients} :
    samePair(z) => (used.received = called.received /\ used.reply = called.reply)

(***************************************************************************)
(* Claims about the tools listing and reload_config                        *)
(***************************************************************************)
\* the number of tools the backends before the i-th client of the map list
RECURSIVE toolsBefore(_)
toolsBefore(i) ==
  IF i = 1 THEN 0 ELSE toolsBefore(i - 1) + Len(caps[clients[i - 1].name].tools)

C25_ReloadToolReportsResult ==
  \A p \in Procs :
    (ReloadDone(p) /\ proc[p].outcome = "resolved") =>
      LET r == proc[p].result
          t == reloadConfigExecute(proc[p].outcome, r)
      IN /\ t.isError = ~r.success
         /\ r.message \in Range(t.text)
         /\ \A i \in DOMAIN r.connected : r.connected[i] \in Range(t.text)
         /\ \A i \in DOMAIN r.failed : r.failed[i] \in Range(t.text)

(***************************************************************************)
(* Claims about /wait-for-auth and waitForAuthCode                         *)
(***************************************************************************)
WaitForAuthStep == reqSeq' # reqSeq /\ lastReq'.path = "wait-for-auth"
parkedOn(ss, r) == {sid \in DOMAIN ss : r \in Range(ss[sid].waitingClients)}

\* the answer given at once, or the parking of the request
answeredAtOnce ==
  WaitForAuthStep =>
    LET sid == lastReq'.sessionId
        new == (DOMAIN res') \ (DOMAIN res)
        atOnce(status) == lastStatus' = status /\ res' = res /\ sessions' = sessions
    IN IF sid = <<>> THEN atOnce(400)
       ELSE IF sid \notin DOMAIN sessions THEN atOnce(404)
       ELSE IF sessions[sid].authCode # "" THEN atOnce(200)
       ELSE IF sessions[sid].authError # "" THEN atOnce(400)
       ELSE IF ~lastReq'.poll THEN atOnce(202)
       ELSE /\ lastStatus' = Open
            /\ Cardinality(new) = 1
            /\ \A r \in new : res'[r] = Open /\ parkedOn(sessions', r) = {sid}
            /\ \A r \in DOMAIN res : res'[r] = res[r]

\* what becomes of a parked request in a step
parkedAnswered ==
  \A r \in DOMAIN res :
    /\ res[r] # Open => res'[r] = res[r]
    /\ res[r] = Open =>
         \E sid \in parkedOn(sessions, r) :
           LET accepted == /\ CallbackStep
                           /\ lastReq'.session = sid
                           /\ sid \in DOMAIN sessions'
                           /\ sessions'[sid] # sessions[sid]
           IN \/ /\ res'[r] = Open
                 /\ parkedOn(sessions', r) = {sid}
                 /\ ~accepted
              \/ /\ res'[r] = 200
                 /\ accepted /\ sessions'[sid].authCode # ""
              \/ /\ res'[r] = 400
                 /\ accepted /\ sessions'[sid].authError # ""
              \/ /\ res'[r] = 408
                 /\ sid \notin DOMAIN sessions'
                 /\ now - sessions[sid].createdAt > authTimeoutMs
              \/ /\ res'[r] \in {202, Gone}
                 /\ parkedOn(sessions', r) = {}
                 /\ DOMAIN sessions' = DOMAIN sessions
                 /\ ~CallbackStep

\* C26: every /wait-for-auth request gets one response and no more: at once
\* 400 without sessionId, 404 for a session not held, 200 when the session has
\* a code, 400 when it has an error (202 when it has neither and poll=false);
\* otherwise it is parked on its session and answered 200 or 400 by a
\* callback accepted for that very session, 408 when that session is swept, or
\* 202 by its timer, whichever comes first, and it is taken off the waiting
\* list without a response when the client disconnects; a parked request does
\* not stay parked for ever.
C26_WaitForAuthAnsweredOnce ==
  /\ [](\A r \in DOMAIN res : Cardinality(parkedOn(sessions, r)) = IF res[r] = Open THEN 1 ELSE 0)
  /\ [][answeredAtOnce /\ parkedAnswered]_vars
  /\ \A r \in ResIds : (r \in DOMAIN res /\ res[r] = Open) ~> (r \in DOMAIN res /\ res[r] # Open)

\* two requests parked on two sessions, one answered by its session's
\* callback while the other stays parked
C26_Witness ==
  /\ Len(res) = 2
  /\ res[1] = 200
  /\ res[2] = Open
  /\ parkedOn(sessions, 2) # {}
  /\ lastReq.path = "callback"

\* how a waitForAuthCode promise settles in a step
settledAsClaimed ==
  \A w \in DOMAIN waits' :
    LET before == IF w \in DOMAIN waits THEN waits[w].status ELSE "not called"
        a == waits'[w]
        sid == a.sessionId
    IN /\ before \in {"resolved", "rejected"} => a = waits[w]
       /\ (before = "not called" /\ sid \in DOMAIN sessions
             /\ (sessions[sid].authCode # "" \/ sessions[sid].authError # ""))
            => a.status # "pending"
       /\ (before \in {"not called", "pending"} /\ a.status = "resolved") =>
            /\ sid \in DOMAIN sessions
            /\ sessions[sid].authCode # ""
            /\ a.value = sessions[sid].authCode
       /\ (before \in {"not called", "pending"} /\ a.status = "rejected") =>
            \/ sid \notin DOMAIN sessions
            \/ /\ sid \in DOMAIN sessions
               /\ sessions[sid].authCode = ""
               /\ sessions[sid].authError # ""
               /\ a.value = sessions[sid].authError
            \/ /\ before = "pending"
               /\ now = a.deadline
               /\ a.value = "OAuth authentication timeout"

C27_PortInUseRetriedOnce ==
  (creation.port # AutoPort /\ creation.first = "EADDRINUSE") =>
    /\ creation.retryAttempted
    /\ creation.retry = "listening" =>
         (creation.promise = "resolved" /\ creation.value = actualPort(AutoPort)
            /\ creation.value \in creation.listening)
    /\ creation.promise = "rejected" => creation.retry \in ListenOutcomes \ {"listening"}

\* C28: checkLockfile returns the recorded lock exactly when a lockfile is
\* there, its process is alive, it is not older than the maximum age and the
\* owner's callback server answers the probe on the recorded port; in every
\* other case it returns nothing and no lockfile is left.
C28_LockReturnedIffValid ==
  lockCheck.status # "none" =>
    LET f == lockCheck.found
        valid == /\ f.state = "lock"
                 /\ lockCheck.alive
                 /\ lockCheck.age <= MaxLockAge
                 /\ lockCheck.probe.answered
    IN IF valid THEN lockCheck.status = "lock" /\ lockCheck.returned = f
       ELSE lockCheck.status = "nothing" /\ lockCheck.after = NoLockfile

\* C29: within one connect of an http or sse backend the protocol connection
\* is attempted at most twice; a second attempt is made only after the first
\* failed as unauthorized and waitForAuthCode for the session of this very
\* connect resolved; when that wait rejects or the second attempt fails the
\* connect fails and no connection is registered under the name.
C29_SecondAttemptOnlyAfterAuth ==
  /\ http.attempts <= 2
  /\ http.attempts = 2 =>
       /\ http.first = "unauthorized"
       /\ http.waited = "resolved"
       /\ waits[http.wait].sessionId = http.session
       /\ waits[http.wait].status = "resolved"
  /\ (http.waited = "rejected" \/ http.second \in ConnectResults \ {"ok"}) =>
       /\ http.pc = "idle"
       /\ http.outcome = "rejected"
       /\ ~mapHas(clients, http.name)
  /\ http.outcome = "resolved" => mapHas(clients, http.name)

\* the connect that went through on its second attempt
C29_Witness ==
  /\ http.attempts = 2
  /\ http.second = "ok"
  /\ http.outcome = "resolved"
  /\ mapHas(clients, "a")

(***************************************************************************)
(* Claims about the life of an OAuth session                               *)
(***************************************************************************)
\* a callback that was accepted: its state parameter is exactly that of a
\* held session and it carried a code (200) or an error (400)
CallbackCompleted == CallbackStep /\ lastReq'.exact /\ lastStatus' \in {200, 400}
expired(ss, sid, t) == t - ss[sid].createdAt > authTimeoutMs

\* C31: a session leaves the session table when its callback completes with
\* a code, when its callback completes with an error, and when the sweep
\* finds it older than the timeout; a callback or /wait-for-auth request that
\* names a session not in the table is answered as an unknown session (400
\* for the callback, 404 for /wait-for-auth).
C31_SessionRemovedOnCompletion ==
  [][/\ CallbackCompleted => lastReq'.session \notin DOMAIN sessions'
     /\ Sweep => \A sid \in DOMAIN sessions :
                   expired(sessions, sid, now) => sid \notin DOMAIN sessions'
     /\ (CallbackStep /\ lastReq'.session = <<>>) => lastStatus' = 400
     /\ (WaitForAuthStep /\ lastReq'.sessionId # <<>> /\ lastReq'.session = <<>>)
          => lastStatus' = 404]_vars

\* C32: a sweep removes every session older than the timeout and answers
\* every open response parked on such a session with 408; every younger
\* session stays with its state, code, error and waiting list as they were,
\* and no response parked on a younger session is answered.
C32_SweepExpiresOldOnly ==
  [][Sweep =>
       \A sid \in DOMAIN sessions :
         IF expired(sessions, sid, now)
         THEN /\ sid \notin DOMAIN sessions'
              /\ \A r \in Range(sessions[sid].waitingClients) :
                    res'[r] = IF res[r] = Open THEN 408 ELSE res[r]
         ELSE /\ sid \in DOMAIN sessions'
              /\ sessions'[sid] = sessions[sid]
              /\ \A r \in Range(sessions[sid].waitingClients) : res'[r] = res[r]]_vars

\* after a sweep: the waiter of the expired session got 408 and the session
\* is gone, while a younger session is held with its waiter still parked
C32_Witness ==
  /\ Len(res) = 2
  /\ res[1] = 408
  /\ res[2] = Open
  /\ \E sid \in DOMAIN sessions :
        /\ ~expired(sessions, sid, now)
        /\ sessions[sid].waitingClients = <<2>>
  /\ Cardinality(DOMAIN sessions) = 1

(***************************************************************************)
(* Claims about the OAuth client provider and the credentials              *)
(***************************************************************************)
\* C33: redirectToAuthorization throws, and neither invokes the redirect
\* callback nor prints the URL, when no session is bound to the provider;
\* otherwise the URL it hands on carries as state exactly sessionId:state of
\* the bound session, which for the provider of a connect is the session
\* generated in that connect; and whenever a connect has started a protocol
\* connection attempt its provider has that session bound.
C33_RedirectCarriesBoundSession ==
  /\ provider.status = "threw" => (~provider.session.bound /\ ~provider.invoked /\ ~provider.printed)
  /\ provider.status = "ok" =>
       /\ provider.session.bound
       /\ provider.url = stateParam(provider.session.sessionId, provider.session.state)
       /\ provider.invoked = provider.onRedirectCallback
       /\ provider.printed = ~provider.onRedirectCallback
  /\ (provider.status # "none" /\ ~provider.session.bound) => provider.status = "threw"
  /\ http.attempts >= 1 =>
       /\ provider.owner = "connect"
       /\ provider.session = OAuthSession(http.session, http.state)

\* the first attempt of a connect was unauthorized: the browser was sent to
\* the URL with the state of the connect's own session, and the connect waits
C33_Witness ==
  /\ http.pc = "waiting"
  /\ http.first = "unauthorized"
  /\ provider.owner = "connect"
  /\ provider.status = "ok"
  /\ provider.invoked
  /\ provider.url = stateParam(http.session, http.state)
  /\ http.session \in DOMAIN sessions

\* C34: whatever way the save operations of the backends of one project
\* interleave, every field whose save has returned is stored in the
\* credentials file under its backend.
C34_SavedFieldsStay ==
  \A e \in credentials.saved : e[2] \in credentials.file[e[1]]

(***************************************************************************)
(* Claims about the order of a reload's steps                              *)
(***************************************************************************)
\* the steps of reload call p
reloadStep(p) == proc'[p] # proc[p] /\ proc'[p].op = "reload"
\* a disconnectServer call of the reload is awaiting client.close()
disconnecting(pr) ==
  pr.pc = "removing" \/ \E n \in DOMAIN pr.sub : pr.sub[n].st = "closing"
\* the step closes a connection or takes a client out of the map
closesSome ==
  \/ \E c \in DOMAIN conn : conn[c].connected /\ ~conn'[c].connected
  \/ ~(mapKeys(clients) \subseteq mapKeys(clients'))
\* the step starts connection attempts: the tasks of the batch are started
\* (each runs up to its first await), or a task goes on from its disconnect
\* to its connect
startsAttempt(p) ==
  \/ DOMAIN proc[p].sub = {} /\ DOMAIN proc'[p].sub # {}
  \/ Len(conn') > Len(conn)

\* C35: in a reload, no backend is disconnected (no disconnect is started, no
\* connection closed) before the pre-reload snapshot is complete; when the
\* first connection attempt of the batch starts the disconnects of all
\* removed backends have settled; and the post-reload snapshot starts only
\* when every task of the batch has put its name into connected or failed.
C35_ReloadStepsInOrder ==
  [][\A p \in Procs : reloadStep(p) =>
       /\ (closesSome \/ (disconnecting(proc'[p]) /\ ~disconnecting(proc[p])))
            => /\ proc[p].pc \notin {"idle", "logStart", "snapOld"}
               /\ proc[p].listing = <<>>
       /\ startsAttempt(p)
            => /\ proc'[p].queue = <<>>
               /\ proc'[p].pc # "removing"
               /\ proc[p].pc \in {"fetch", "removing", "batch"}
       /\ (proc'[p].pc = "snapNew" /\ proc[p].pc # "snapNew")
            => /\ DOMAIN proc'[p].sub = Range(proc'[p].newConfig)
               /\ \A n \in DOMAIN proc'[p].sub :
                     \/ proc'[p].sub[n].st = "ok" /\ n \in Range(proc'[p].connected)
                     \/ proc'[p].sub[n].st = "fail" /\ n \in Range(proc'[p].failed)]_vars

\* a reload that dropped one backend and reconnected the other has joined
\* its batch and is taking the post-reload snapshot
C35_Witness ==
  \E p \in Procs :
    /\ proc[p].op = "reload"
    /\ proc[p].pc = "snapNew"
    /\ serversRemoved(proc[p].oldClients, proc[p].newConfig) # <<>>
    /\ Len(proc[p].newConfig) = 1
    /\ proc[p].oldNames = Names
    /\ proc[p].connected = proc[p].newConfig

(***************************************************************************)
(* Claims about the callback servers of the connection manager             *)
(***************************************************************************)
\* the callback servers made for backend n that are listening
openServers(n) ==
  {i \in DOMAIN oauthServers.made :
     oauthServers.made[i].name = n /\ oauthServers.made[i].listening}
connectInProgress(n) == http.pc # "idle" /\ http.name = n

\* C36: at any time at most one callback server is listening per backend
\* name, and none is listening for a backend that has neither a live
\* connection nor a connect call in progress.
C36_CallbackServersClosed ==
  \A n \in Names :
    /\ Cardinality(openServers(n)) <= 1
    /\ openServers(n) # {} => (live(conn, n) # {} \/ connectInProgress(n))

(***************************************************************************)
(* Claims about what a session records                                     *)
(***************************************************************************)
\* C37: a callback request leaves the code and the error of every session
\* that has a code recorded as they are, and no session holds a code and an
\* error at once.
C37_CodeIsFinal ==
  [][CallbackStep =>
       /\ \A sid \in (DOMAIN sessions) \cap (DOMAIN sessions') :
            sessions[sid].authCode # "" =>
              /\ sessions'[sid].authCode = sessions[sid].authCode
              /\ sessions'[sid].authError = sessions[sid].authError
       /\ \A sid \in DOMAIN sessions' :
            ~(sessions'[sid].authCode # "" /\ sessions'[sid].authError # "")]_vars

(***************************************************************************)
(* Claims about reload and the lists the client sees                       *)
(***************************************************************************)
\* the tools of a snapshot as list-tools shows them with prefixing: each
\* tool under its backend's name, with its definition
prefixedTools(lists) ==
  UNION {{<<n, lists[n]["tools"][i]>> : i \in DOMAIN lists[n]["tools"]} : n \in DOMAIN lists}

\* C38: with prefixing, a completed reload whose two snapshots give list-tools
\* different backend/tool entries (by backend name, tool name or definition)
\* has sent the tools list-changed notification.
C38_PrefixedListChangeNotified ==
  \A p \in Procs :
    (/\ ReloadResolved(p) /\ proc[p].result.message = "complete"
     /\ prefixedTools(proc[p].oldLists) # prefixedTools(proc[p].newLists))
    => "tools" \in Range(proc[p].sent)

(***************************************************************************)
(* Claims about call-tool without prefixing                                *)
(***************************************************************************)
\* C39: without prefixing (and not in progressive mode), for every connected
\* backend b whose listing has the tool t of a call-tool request: when no
\* backend's call fails, b receives the call for t with the request's
\* arguments; and when the call on b fails, the request fails with that
\* failure and not with tool not found.
C39_ListedToolReachable ==
  (called.status # "none" /\ ~options.useServerPrefix /\ ~options.progressive) =>
    \A i \in DOMAIN clients :
      LET e == clients[i]
          l == listToolsOf(conn, caps, called.failing, e)
      IN called.toolName \in Range(l.names) =>
           /\ called.rejecting = {} =>
                [server |-> e.name, name |-> called.toolName, args |-> called.toolArgs]
                  \in called.received
           /\ e.name \in called.rejecting => called.status # "not found"

\* a reload that has not got its configuration: it is before the fetch, in
\* it, or past a fetch that threw
withoutConfig(pr) == pr.fetchFailed \/ pr.pc \in {"logStart", "snapOld", "fetch"}

\* C40: a reload whose fetchConfiguration throws changes neither the clients
\* map nor any connection, from its call to its return, and sends no
\* list-changed notification; it resolves with success false and empty
\* connected and failed lists.
C40_FailedFetchChangesNothing ==
  [][\A p \in Procs : (reloadStep(p) /\ withoutConfig(proc'[p])) =>
       /\ clients' = clients
       /\ conn' = conn
       /\ proc'[p].sent = <<>>
       /\ (proc'[p].fetchFailed /\ proc'[p].pc = "idle") =>
            /\ proc'[p].outcome = "resolved"
            /\ ~proc'[p].result.success
            /\ proc'[p].result.connected = <<>>
            /\ proc'[p].result.failed = <<>>]_vars
====
